---- MODULE Spec2Model ----
(***************************************************************************)
(* Memory subsystem of god-cli (src/god_cli.py, class OllamaCLI): the      *)
(* extracted_info / metadata_index / system_knowledge tables, the index    *)
(* rebuild, the search entry points and the date resolver.                 *)
(*                                                                         *)
(* Text is a sequence of one-character strings, so that lower(), the       *)
(* substring test (`in`, LIKE '%x%'), strftime and strptime are computed   *)
(* character by character as the code computes them.  A date is a record   *)
(* [y, m, d] of the proleptic Gregorian calendar, as datetime keeps it.    *)
(***************************************************************************)
EXTENDS Integers, Sequences, FiniteSets, TLC

VARIABLES
    now,              \* datetime.now(): the current local date
    extracted_info,   \* table extracted_info, rows in rowid order
    metadata_index,   \* table metadata_index, rows in rowid order
    ei_seq,           \* sqlite_sequence entry of extracted_info (AUTOINCREMENT)
    mi_seq,           \* sqlite_sequence entry of metadata_index (AUTOINCREMENT)
    system_knowledge, \* table system_knowledge, rows in rowid order
    pc,               \* where the interactive session stands
    results,          \* the result list handed to display_search_results
    last,             \* the operation that returned last
    streak,           \* consecutive direct rebuild_metadata_index calls (capped)
    rebuilt,          \* the last validate_search_prerequisites ran a rebuild
    queried,          \* the last search executed a SELECT against the store
    crit,             \* the inputs of the last search or custom extraction
    entry,            \* the counts validate_search_prerequisites read last
    importance_in,    \* the last answer typed at the importance prompt
    query,            \* the text typed last: argument of parse_date_query,
                      \* search text of extract_custom, answer at a selection
    result,           \* what parse_date_query did with it
    conversations,    \* table conversations, rows in rowid order
    candidates,       \* the list an extraction selection loop chooses from
    broken,           \* the tables on which every statement fails
    reported,         \* the last message the operation printed for the user
    chat_history,     \* config["chat_history"]
    max_history       \* config["max_history"]

vars == <<now, extracted_info, metadata_index, ei_seq, mi_seq, system_knowledge,
          pc, results, last, streak, rebuilt, queried, crit, entry, importance_in,
          query, result, conversations, candidates, broken, reported,
          chat_history, max_history>>

-----------------------------------------------------------------------------
(* Bounds of the model *)

\* days taken after each anchor date as "today"
NumDays == 9
\* words per query phrase
MaxWords == 2
\* rows of extracted_info and of metadata_index in a database file left by
\* earlier sessions
MaxInitRows == 2
MaxInitIndex == 2
\* rows a session that starts on a new file saves from extraction candidates
MaxRows == 1
\* rows of system_knowledge in all
MaxKnowledge == 1
\* largest AUTOINCREMENT value handed out for metadata_index
MaxSeq == 6
\* rows of extracted_info in a database the searches are tried on
MaxQueryRows == 2
\* exchanges a session chats before it extracts
MaxConversations == 2
\* rows of extracted_info the extraction flows save in all
MaxExtractRows == 2
\* sentences of a message the action-item scan reads
MaxSentences == 2
\* lines of an answer the code-snippet scan reads
MaxLines == 3

-----------------------------------------------------------------------------
(* Text *)

UpperAlpha == <<"A","B","C","D","E","F","G","H","I","J","K","L","M",
                "N","O","P","Q","R","S","T","U","V","W","X","Y","Z">>
LowerAlpha == <<"a","b","c","d","e","f","g","h","i","j","k","l","m",
                "n","o","p","q","r","s","t","u","v","w","x","y","z">>
DigitChars == <<"0","1","2","3","4","5","6","7","8","9">>

\* str.lower() on one character
LowerChar(c) ==
    IF \E i \in 1..26 : UpperAlpha[i] = c
    THEN LowerAlpha[CHOOSE i \in 1..26 : UpperAlpha[i] = c]
    ELSE c

\* str.lower()
Lower(s) == [i \in 1..Len(s) |-> LowerChar(s[i])]

\* `sub in s`
Contains(s, sub) ==
    \E i \in 0..(Len(s) - Len(sub)) : SubSeq(s, i + 1, i + Len(sub)) = sub

IsDigit(c) == \E i \in 1..10 : DigitChars[i] = c

\* the one character U+00B2 (superscript two), written "^2" here
SuperscriptTwo == "^2"

\* str.isdigit(): not empty and every character has the Unicode property
\* Numeric_Type Digit or Decimal, which the superscript digits have
IsDigitStr(s) ==
    s # << >> /\ \A i \in 1..Len(s) : IsDigit(s[i]) \/ s[i] = SuperscriptTwo
DigitVal(c) == (CHOOSE i \in 1..10 : DigitChars[i] = c) - 1

\* the decimal digits of n, zero-padded to width w (n < 10^w)
RECURSIVE Pad(_, _)
Pad(n, w) == IF w = 0 THEN << >> ELSE Pad(n \div 10, w - 1) \o <<DigitChars[(n % 10) + 1]>>

-----------------------------------------------------------------------------
(* Calendar: what datetime computes *)

IsLeap(y) == (y % 4 = 0) /\ ((y % 100 # 0) \/ (y % 400 = 0))

DaysInMonth(y, m) ==
    IF m = 2 THEN (IF IsLeap(y) THEN 29 ELSE 28)
    ELSE IF m \in {4, 6, 9, 11} THEN 30 ELSE 31

RECURSIVE DaysBeforeMonth(_, _)
DaysBeforeMonth(y, m) ==
    IF m = 1 THEN 0 ELSE DaysBeforeMonth(y, m - 1) + DaysInMonth(y, m - 1)

\* date.toordinal(): 0001-01-01 is day 1
Ordinal(dt) ==
    LET p == dt.y - 1
    IN  p * 365 + (p \div 4) - (p \div 100) + (p \div 400)
        + DaysBeforeMonth(dt.y, dt.m) + dt.d

\* datetime.weekday(): Monday = 0 .. Sunday = 6
Weekday(dt) == (Ordinal(dt) + 6) % 7

IsValidDate(y, m, d) ==
    /\ y \in 1..9999
    /\ m \in 1..12
    /\ d \in 1..DaysInMonth(y, m)

NextDay(dt) ==
    IF dt.d < DaysInMonth(dt.y, dt.m) THEN [dt EXCEPT !.d = dt.d + 1]
    ELSE IF dt.m < 12 THEN [y |-> dt.y, m |-> dt.m + 1, d |-> 1]
    ELSE [y |-> dt.y + 1, m |-> 1, d |-> 1]

PrevDay(dt) ==
    IF dt.d > 1 THEN [dt EXCEPT !.d = dt.d - 1]
    ELSE IF dt.m > 1 THEN [y |-> dt.y, m |-> dt.m - 1, d |-> DaysInMonth(dt.y, dt.m - 1)]
    ELSE [y |-> dt.y - 1, m |-> 12, d |-> 31]

RECURSIVE PlusDays(_, _)
PlusDays(dt, k) == IF k = 0 THEN dt ELSE PlusDays(NextDay(dt), k - 1)

\* dt - timedelta(days=k)
RECURSIVE MinusDays(_, _)
MinusDays(dt, k) == IF k = 0 THEN dt ELSE MinusDays(PrevDay(dt), k - 1)

\* dt.strftime('%Y-%m-%d')
StrftimeYmd(dt) == Pad(dt.y, 4) \o <<"-">> \o Pad(dt.m, 2) \o <<"-">> \o Pad(dt.d, 2)

WeekdayNames == <<
    <<"M","o","n","d","a","y">>,
    <<"T","u","e","s","d","a","y">>,
    <<"W","e","d","n","e","s","d","a","y">>,
    <<"T","h","u","r","s","d","a","y">>,
    <<"F","r","i","d","a","y">>,
    <<"S","a","t","u","r","d","a","y">>,
    <<"S","u","n","d","a","y">> >>

\* the keys of weekday_map, in insertion order, with value index - 1
weekday_map == [i \in 1..7 |-> Lower(WeekdayNames[i])]

\* the outcome of a call: a returned string, a returned None, a raised ValueError
RetStr(s) == [kind |-> "str", val |-> s]
RetNone == [kind |-> "none", val |-> << >>]
Raised == [kind |-> "raise", val |-> << >>]

\* now.replace(day=k).strftime('%Y-%m-%d'); replace raises ValueError when k
\* is no day of now's month
ReplaceDayYmd(dt, k) ==
    IF k \in 1..DaysInMonth(dt.y, dt.m)
    THEN RetStr(StrftimeYmd([dt EXCEPT !.d = k]))
    ELSE Raised

\* datetime.strptime(q, '%Y-%m-%d') succeeds.  _strptime matches the regex
\* (\d\d\d\d)-(1[0-2]|0[1-9]|[1-9])-(3[01]|[12]\d|0[1-9]|[1-9]| [1-9]) at the
\* start of q, requires that nothing remains, and builds the date.
StrptimeYmdOk(q) ==
    LET n == Len(q)
        At(i) == IF i \in 1..n THEN q[i] ELSE "$"
        D19(c) == IsDigit(c) /\ c # "0"
        mlen == IF \/ (At(6) = "1" /\ At(7) \in {"0", "1", "2"})
                   \/ (At(6) = "0" /\ D19(At(7)))
                THEN 2
                ELSE IF D19(At(6)) THEN 1 ELSE 0
        p == 7 + mlen
        dlen == IF \/ (At(p) = "3" /\ At(p + 1) \in {"0", "1"})
                   \/ (At(p) \in {"1", "2"} /\ IsDigit(At(p + 1)))
                   \/ (At(p) = "0" /\ D19(At(p + 1)))
                THEN 2
                ELSE IF D19(At(p)) THEN 1
                ELSE IF At(p) = " " /\ D19(At(p + 1)) THEN 2 ELSE 0
        num(a, b) == IF a = b THEN DigitVal(q[a])
                     ELSE (IF q[a] = " " THEN 0 ELSE DigitVal(q[a])) * 10 + DigitVal(q[b])
    IN  /\ \A i \in 1..4 : IsDigit(At(i))
        /\ At(5) = "-"
        /\ mlen > 0
        /\ At(6 + mlen) = "-"
        /\ dlen > 0
        /\ p + dlen - 1 = n
        /\ IsValidDate(DigitVal(q[1]) * 1000 + DigitVal(q[2]) * 100
                         + DigitVal(q[3]) * 10 + DigitVal(q[4]),
                       num(6, 5 + mlen),
                       num(p, p + dlen - 1))

sYesterday == <<"y","e","s","t","e","r","d","a","y">>
sToday == <<"t","o","d","a","y">>
sThisWeek == <<"t","h","i","s"," ","w","e","e","k">>
sLast == <<"l","a","s","t">>

\* the first key of weekday_map found in the phrase
FirstWeekdayIn(ql) == CHOOSE i \in 1..7 :
    /\ Contains(ql, weekday_map[i])
    /\ \A j \in 1..(i - 1) : ~Contains(ql, weekday_map[j])

\* the days to go back for weekday number day_num
DaysSince(today, day_num) ==
    LET days_since == (Weekday(today) - day_num) % 7
    IN  IF days_since = 0 THEN 7 ELSE days_since

\* a resolver that looks for 'today' before 'yesterday'
parse_date_query_TodayFirst(q, today) ==
    LET query_lower == Lower(q)
    IN  IF Contains(query_lower, sToday)
        THEN RetStr(StrftimeYmd(today))
        ELSE IF Contains(query_lower, sYesterday)
        THEN ReplaceDayYmd(today, today.d - 1)
        ELSE IF Contains(query_lower, sThisWeek)
        THEN ReplaceDayYmd(today, today.d - Weekday(today))
        ELSE IF /\ Contains(query_lower, sLast)
                /\ \E i \in 1..7 : Contains(query_lower, weekday_map[i])
        THEN ReplaceDayYmd(today,
                 today.d - DaysSince(today, FirstWeekdayIn(query_lower) - 1))
        ELSE IF StrptimeYmdOk(q) THEN RetStr(q) ELSE RetNone

\* parse_date_query(query) when datetime.now() is today
parse_date_query(q, today) ==
    LET query_lower == Lower(q)
    IN  IF Contains(query_lower, sYesterday)
        THEN ReplaceDayYmd(today, today.d - 1)
        ELSE IF Contains(query_lower, sToday)
        THEN RetStr(StrftimeYmd(today))
        ELSE IF Contains(query_lower, sThisWeek)
        THEN ReplaceDayYmd(today, today.d - Weekday(today))
        ELSE IF /\ Contains(query_lower, sLast)
                /\ \E i \in 1..7 : Contains(query_lower, weekday_map[i])
        THEN ReplaceDayYmd(today,
                 today.d - DaysSince(today, FirstWeekdayIn(query_lower) - 1))
        ELSE IF StrptimeYmdOk(q) THEN RetStr(q) ELSE RetNone

-----------------------------------------------------------------------------
(* Store: the rows of extracted_info and metadata_index.  Of a row of      *)
(* extracted_info the model keeps id, title, content, category,            *)
(* extraction_type, topic, tags, importance_level and created_at; summary, *)
(* source_session and updated_at are written once and read by no query.    *)

\* SQL NULL / Python None in a text column: no text equals it
NULL == <<"NULL">>

Min(a, b) == IF a < b THEN a ELSE b
Max(a, b) == IF a > b THEN a ELSE b

MonthNames == <<
    <<"J","a","n","u","a","r","y">>,
    <<"F","e","b","r","u","a","r","y">>,
    <<"M","a","r","c","h">>,
    <<"A","p","r","i","l">>,
    <<"M","a","y">>,
    <<"J","u","n","e">>,
    <<"J","u","l","y">>,
    <<"A","u","g","u","s","t">>,
    <<"S","e","p","t","e","m","b","e","r">>,
    <<"O","c","t","o","b","e","r">>,
    <<"N","o","v","e","m","b","e","r">>,
    <<"D","e","c","e","m","b","e","r">> >>

\* dt.strftime('%A'), dt.strftime('%B'), dt.strftime('%Y')
StrftimeA(dt) == WeekdayNames[Weekday(dt) + 1]
StrftimeB(dt) == MonthNames[dt.m]
StrftimeY(dt) == Pad(dt.y, 4)

sUnknown == <<"u","n","k","n","o","w","n">>
sGeneral == <<"G","e","n","e","r","a","l">>
sNoon == <<" ","1","2",":","0","0",":","0","0">>

\* CURRENT_TIMESTAMP, 'YYYY-MM-DD HH:MM:SS'.  The offset between the zone of
\* datetime.now() and UTC is not modelled: both clocks show the same day.
CurrentTimestamp(today) == StrftimeYmd(today) \o sNoon

\* s.replace('Z', '+00:00')
RECURSIVE ReplaceZ(_)
ReplaceZ(s) ==
    IF s = << >> THEN << >>
    ELSE (IF Head(s) = "Z" THEN <<"+","0","0",":","0","0">> ELSE <<Head(s)>>)
         \o ReplaceZ(Tail(s))

TwoDigits(s, i) == DigitVal(s[i]) * 10 + DigitVal(s[i + 1])

\* s[1..10] is YYYY-MM-DD, zero-padded, and a date of the calendar
IsoDateOk(s) ==
    /\ Len(s) >= 10
    /\ \A i \in {1, 2, 3, 4, 6, 7, 9, 10} : IsDigit(s[i])
    /\ s[5] = "-"
    /\ s[8] = "-"
    /\ IsValidDate(TwoDigits(s, 1) * 100 + TwoDigits(s, 3), TwoDigits(s, 6), TwoDigits(s, 9))

\* s[i..i+4] is HH:MM with HH < hmax and MM < 60
IsoHmOk(s, i, hmax) ==
    /\ \A j \in {i, i + 1, i + 3, i + 4} : IsDigit(s[j])
    /\ s[i + 2] = ":"
    /\ TwoDigits(s, i) < hmax
    /\ TwoDigits(s, i + 3) < 60

\* datetime.fromisoformat(s) succeeds: a date, or a date, one separator
\* character and HH:MM:SS, with an optional +HH:MM / -HH:MM offset
FromIsoformatOk(s) ==
    /\ Len(s) \in {10, 19, 25}
    /\ IsoDateOk(s)
    /\ Len(s) >= 19 =>
          /\ IsoHmOk(s, 12, 24)
          /\ s[17] = ":"
          /\ IsDigit(s[18]) /\ IsDigit(s[19])
          /\ TwoDigits(s, 18) < 60
    /\ Len(s) = 25 => (s[20] \in {"+", "-"} /\ IsoHmOk(s, 21, 24))

IsoDate(s) == [y |-> TwoDigits(s, 1) * 100 + TwoDigits(s, 3),
               m |-> TwoDigits(s, 6), d |-> TwoDigits(s, 9)]

\* `x.lower() if x else ''`
LowerOrEmpty(x) == IF x = NULL \/ x = << >> THEN << >> ELSE Lower(x)

\* the row rebuild_metadata_index inserts for one extracted_info row
RebuildRow(new_id, item) ==
    LET created_at == item.created_at
        ok == created_at # NULL /\ FromIsoformatOk(ReplaceZ(created_at))
        dt == IsoDate(created_at)
    IN  [id |-> new_id,
         extracted_info_id |-> item.id,
         date_key |-> IF ok THEN StrftimeYmd(dt)
                      ELSE IF created_at # NULL /\ created_at # << >>
                      THEN SubSeq(created_at, 1, Min(10, Len(created_at)))
                      ELSE sUnknown,
         weekday |-> IF ok THEN Lower(StrftimeA(dt)) ELSE sUnknown,
         month |-> IF ok THEN Lower(StrftimeB(dt)) ELSE sUnknown,
         year |-> IF ok THEN StrftimeY(dt) ELSE sUnknown,
         topic_key |-> LowerOrEmpty(item.topic),
         category_key |-> LowerOrEmpty(item.category),
         tags_key |-> LowerOrEmpty(item.tags)]

\* a rebuild that skips the DELETE
ClearIndex_Keep(mi) == mi

\* DELETE FROM metadata_index
ClearIndex(mi) == << >>

\* the INSERT loop of the rebuild; AUTOINCREMENT hands out seq + 1, seq + 2, ..
RebuildInserts(extracted_items, seq) ==
    [i \in 1..Len(extracted_items) |-> RebuildRow(seq + i, extracted_items[i])]

\* rebuild_metadata_index: the committed metadata_index and its sequence.
\* With nothing to index the connection is closed before any commit, which
\* rolls the DELETE back.
rebuild_metadata_index(ei, mi, seq) ==
    LET cleared == ClearIndex(mi)
        extracted_items == ei
    IN  IF extracted_items = << >>
        THEN [metadata_index |-> mi, mi_seq |-> seq]
        ELSE [metadata_index |-> cleared \o RebuildInserts(extracted_items, seq),
              mi_seq |-> seq + Len(extracted_items)]

\* a connection that commits what its statements wrote
Rollback_Commit(committed, written) == written

\* conn.close() on a connection whose statements were never committed: the
\* database file keeps the committed tables
Rollback(committed, written) == committed

\* rebuild_metadata_index raising after the INSERT for the first done rows: the
\* DELETE and the INSERTs belong to one transaction whose only commit follows
\* the loop, and the except branch closes the connection
rebuild_metadata_index_raises(ei, mi, seq, done) ==
    LET cleared == ClearIndex(mi)
        extracted_items == ei
        processed == SubSeq(extracted_items, 1, done)
    IN  Rollback([metadata_index |-> mi, mi_seq |-> seq],
                 [metadata_index |-> cleared \o RebuildInserts(processed, seq),
                  mi_seq |-> seq + done])

\* the two rows save_extracted_info_with_metadata commits together
SavedInfoRow(new_id, title, content, category, extraction_type, topic, importance, tags, created_at) ==
    [id |-> new_id, title |-> title, content |-> content, category |-> category,
     extraction_type |-> extraction_type, topic |-> topic, tags |-> tags,
     importance_level |-> importance, created_at |-> created_at]

SavedIndexRow(new_id, extracted_id, today, topic, category, tags) ==
    [id |-> new_id,
     extracted_info_id |-> extracted_id,
     date_key |-> StrftimeYmd(today),
     weekday |-> StrftimeA(today),
     month |-> StrftimeB(today),
     year |-> StrftimeY(today),
     topic_key |-> Lower(topic),
     category_key |-> Lower(category),
     tags_key |-> Lower(tags)]

-----------------------------------------------------------------------------
(* Text helpers of the metadata prompts and of the queries *)

IsSpace(c) == c \in {" ", "\n", "\t"}

\* str.strip()
RECURSIVE LStrip(_)
LStrip(s) == IF s # << >> /\ IsSpace(Head(s)) THEN LStrip(Tail(s)) ELSE s
RECURSIVE RStrip(_)
RStrip(s) ==
    IF s # << >> /\ IsSpace(s[Len(s)]) THEN RStrip(SubSeq(s, 1, Len(s) - 1)) ELSE s
Strip(s) == RStrip(LStrip(s))

\* s.split(sep) for a one-character separator: the pieces, empty ones included
RECURSIVE SplitAcc(_, _, _)
SplitAcc(s, sep, cur) ==
    IF s = << >> THEN <<cur>>
    ELSE IF Head(s) = sep THEN <<cur>> \o SplitAcc(Tail(s), sep, << >>)
    ELSE SplitAcc(Tail(s), sep, Append(cur, Head(s)))
SplitOn(s, sep) == SplitAcc(s, sep, << >>)

\* s.split(): the maximal runs of non-whitespace characters
RECURSIVE WordsAcc(_, _)
WordsAcc(s, cur) ==
    IF s = << >> THEN (IF cur = << >> THEN << >> ELSE <<cur>>)
    ELSE IF IsSpace(Head(s))
         THEN (IF cur = << >> THEN << >> ELSE <<cur>>) \o WordsAcc(Tail(s), << >>)
         ELSE WordsAcc(Tail(s), Append(cur, Head(s)))
SplitWords(s) == WordsAcc(s, << >>)

IsLetter(c) == \E i \in 1..26 : UpperAlpha[i] = c \/ LowerAlpha[i] = c
\* str.isalpha()
IsAlpha(w) == w # << >> /\ \A i \in 1..Len(w) : IsLetter(w[i])

\* [w for w in text.lower().split() if len(w) > 3 and w.isalpha()][:3]
KeyWords(text) ==
    LET IsKey(w) == Len(w) > 3 /\ IsAlpha(w)
        ks == SelectSeq(SplitWords(Lower(text)), IsKey)
    IN  SubSeq(ks, 1, Min(3, Len(ks)))

\* auto_tags of collect_metadata_and_save
AutoTags(context, content) ==
    (IF context # << >> THEN KeyWords(context) ELSE << >>)
    \o (IF content # << >> THEN KeyWords(content) ELSE << >>)

\* [t.strip() for t in tags.split(',') if t.strip()]
UserTags(tags) ==
    LET NonBlank(t) == Strip(t) # << >>
        kept == SelectSeq(SplitOn(tags, ","), NonBlank)
    IN  [i \in 1..Len(kept) |-> Strip(kept[i])]

Range(f) == {f[i] : i \in DOMAIN f}

\* list(set(xs)): the distinct elements in an order the hash seed decides
SetOrders(S) ==
    {o \in [1..Cardinality(S) -> S] : \A i, j \in 1..Cardinality(S) : i # j => o[i] # o[j]}

\* sep.join(xs)
RECURSIVE Join(_, _)
Join(xs, sep) ==
    IF xs = << >> THEN << >>
    ELSE IF Len(xs) = 1 THEN xs[1]
    ELSE xs[1] \o sep \o Join(Tail(xs), sep)

\* the strings final_tags can be
FinalTags(context, content, tags) ==
    {Join(o, <<",", " ">>) :
        o \in SetOrders(Range(AutoTags(context, content) \o UserTags(tags)))}

\* int(s) succeeds: optional sign and decimal digits, blanks around allowed
IntOk(s) ==
    LET t == Strip(s)
        body == IF t # << >> /\ t[1] \in {"+", "-"} THEN Tail(t) ELSE t
    IN  body # << >> /\ \A i \in 1..Len(body) : IsDigit(body[i])

RECURSIVE DigitsVal(_)
DigitsVal(ds) ==
    IF ds = << >> THEN 0 ELSE DigitsVal(SubSeq(ds, 1, Len(ds) - 1)) * 10 + DigitVal(ds[Len(ds)])

\* int(s)
IntVal(s) ==
    LET t == Strip(s)
    IN  IF t[1] = "-" THEN 0 - DigitsVal(Tail(t))
        ELSE IF t[1] = "+" THEN DigitsVal(Tail(t)) ELSE DigitsVal(t)

\* a clamp without the lower bound
ClampImportance_NoFloor(importance) == Min(5, importance)

\* max(1, min(5, importance))
ClampImportance(importance) == Max(1, Min(5, importance))

\* the importance collect_metadata_and_save derives from the typed answer
ImportanceFromInput(answer) ==
    LET text == IF Strip(answer) = << >> THEN <<"3">> ELSE Strip(answer)
    IN  IF IntOk(text) THEN ClampImportance(IntVal(text)) ELSE 3

\* input(..).strip() or "General"
TopicFromInput(answer) == IF Strip(answer) = << >> THEN sGeneral ELSE Strip(answer)

-----------------------------------------------------------------------------
(* Queries *)

\* the characters of the model in code-point order (BINARY collation)
CodePoints == <<"\t", "\n", " ", "$", "%", "(", ")", "+", ",", "-", ".",
                "0","1","2","3","4","5","6","7","8","9", ":", "=">>
              \o UpperAlpha \o <<"_">> \o LowerAlpha \o <<"^2">>
CodePoint(c) == CHOOSE i \in 1..Len(CodePoints) : CodePoints[i] = c

\* a < b for two texts, as memcmp orders them
RECURSIVE TextLess(_, _)
TextLess(a, b) ==
    IF b = << >> THEN FALSE
    ELSE IF a = << >> THEN TRUE
    ELSE IF Head(a) = Head(b) THEN TextLess(Tail(a), Tail(b))
    ELSE CodePoint(Head(a)) < CodePoint(Head(b))

\* a < b for two column values: NULL sorts before every text
ValueLess(a, b) ==
    IF b = NULL THEN FALSE
    ELSE IF a = NULL THEN TRUE
    ELSE TextLess(a, b)

\* ORDER BY ei.importance_level DESC, ei.created_at DESC puts r1 before r2
OrderedBefore(r1, r2) ==
    \/ r1.importance_level > r2.importance_level
    \/ /\ r1.importance_level = r2.importance_level
       /\ ValueLess(r2.created_at, r1.created_at)

\* the columns every memory search selects
Selected(ei_row) ==
    [title |-> ei_row.title, content |-> ei_row.content, category |-> ei_row.category,
     topic |-> ei_row.topic, importance_level |-> ei_row.importance_level,
     created_at |-> ei_row.created_at, tags |-> ei_row.tags]

\* FROM extracted_info ei JOIN metadata_index mi ON ei.id = mi.extracted_info_id
\* as pairs of row positions, each with the columns selected from it
Joined(ei, mi) ==
    {[pair |-> p, mi |-> mi[p[2]], row |-> Selected(ei[p[1]])] :
        p \in {q \in (1..Len(ei)) \X (1..Len(mi)) :
                  ei[q[1]].id = mi[q[2]].extracted_info_id}}

\* the orders of the elements of S that respect ORDER BY; rows that tie come
\* in an order SQL leaves open
OrderedLists(S) ==
    {o \in SetOrders(S) :
        \A a, b \in 1..Cardinality(S) : a < b => ~OrderedBefore(o[b].row, o[a].row)}

\* SQLite's LIKE: in the pattern % stands for any run of characters and _ for
\* any one character; letters compare without regard to ASCII case
RECURSIVE LikeMatch(_, _)
LikeMatch(pattern, text) ==
    IF pattern = << >> THEN text = << >>
    ELSE IF Head(pattern) = "%"
    THEN \E k \in 0..Len(text) :
            LikeMatch(Tail(pattern), SubSeq(text, k + 1, Len(text)))
    ELSE /\ text # << >>
         /\ \/ Head(pattern) = "_"
            \/ LowerChar(Head(pattern)) = LowerChar(Head(text))
         /\ LikeMatch(Tail(pattern), Tail(text))

\* value LIKE ? with the parameter f'%{needle}%'
Like(value, needle) ==
    value # NULL /\ LikeMatch(<<"%">> \o needle \o <<"%">>, value)

\* search_database_by_date: the lists fetchall() can return
search_database_by_date(ei, mi, date_str) ==
    LET matching == {x \in Joined(ei, mi) : x.mi.date_key = date_str}
    IN  {[k \in 1..Len(o) |-> o[k].row] : o \in OrderedLists(matching)}

\* [tag.strip().lower() for tag in tags.split(',')]
TagList(tags) ==
    LET parts == SplitOn(tags, ",")
    IN  [i \in 1..Len(parts) |-> Lower(Strip(parts[i]))]

\* the lists fetchall() can return for a set of joined rows
Fetched(matching) ==
    {[k \in 1..Len(o) |-> o[k].row] : o \in OrderedLists(matching)}

\* search_database_by_topic: WHERE mi.topic_key LIKE f'%{topic}%'
search_database_by_topic(ei, mi, topic) ==
    Fetched({x \in Joined(ei, mi) : Like(x.mi.topic_key, topic)})

\* search_database_by_category: WHERE mi.category_key = ?
search_database_by_category(ei, mi, category) ==
    Fetched({x \in Joined(ei, mi) : x.mi.category_key = category})

\* search_database_by_tags: WHERE mi.tags_key LIKE ? OR mi.tags_key LIKE ? ...
search_database_by_tags(ei, mi, tag_list) ==
    Fetched({x \in Joined(ei, mi) :
                \E i \in 1..Len(tag_list) : Like(x.mi.tags_key, tag_list[i])})

\* the rows of extracted_info at a level exactly
Exactly(ei, level) == {i \in 1..Len(ei) : ei[i].importance_level = level}

\* WHERE ei.importance_level >= ?: the rows at or above a level, by position
AtLeast(ei, level) == {i \in 1..Len(ei) : ei[i].importance_level >= level}

\* an importance search that joins metadata_index as the other searches do
search_database_by_importance_Joined(ei, level) ==
    Fetched({x \in Joined(ei, metadata_index) : x.row.importance_level >= level})

\* search_database_by_importance: FROM extracted_info ei alone,
\* WHERE ei.importance_level >= ?
search_database_by_importance(ei, level) ==
    Fetched({[pair |-> <<i, 0>>, row |-> Selected(ei[i])] : i \in AtLeast(ei, level)})

\* SELECT DISTINCT category FROM extracted_info ORDER BY category
get_available_categories(ei) ==
    LET cats == {ei[i].category : i \in 1..Len(ei)}
    IN  CHOOSE o \in SetOrders(cats) :
            \A a, b \in 1..Len(o) : a < b => TextLess(o[a], o[b])

NotCalled == [kind |-> "uncalled", val |-> << >>]

\* the outcome of parse_date_query inside execute_combined_search
CombinedParse(date_query, today) ==
    IF date_query # << >> THEN parse_date_query(date_query, today) ELSE NotCalled

\* query_parts of execute_combined_search is not empty
HasQueryParts(parsed, topic, category, tags) ==
    parsed.kind = "str" \/ topic # << >> \/ category # << >> \/ tags # << >>

\* the WHERE clause execute_combined_search builds, on one metadata_index row
CombinedWhere(m, parsed, topic, category, tags) ==
    /\ parsed.kind = "str" => m.date_key = parsed.val
    /\ topic # << >> => Like(m.topic_key, Lower(topic))
    /\ category # << >> => m.category_key = Lower(category)
    /\ tags # << >> =>
          \E i \in 1..Len(TagList(tags)) : Like(m.tags_key, TagList(tags)[i])

\* execute_combined_search: whether a SELECT ran, and the lists it can return.
\* A ValueError of parse_date_query is caught by the handler, which returns [].
execute_combined_search(ei, mi, today, date_query, topic, category, tags) ==
    LET parsed == CombinedParse(date_query, today)
        matching == {x \in Joined(ei, mi) :
                        CombinedWhere(x.mi, parsed, topic, category, tags)}
        \* SELECT DISTINCT: one item per distinct selected row
        distinct == {[row |-> x.row] : x \in matching}
    IN  IF parsed.kind = "raise" \/ ~HasQueryParts(parsed, topic, category, tags)
        THEN [queried |-> FALSE, lists |-> {<< >>}]
        ELSE [queried |-> TRUE,
              lists |-> {[k \in 1..Len(o) |-> o[k].row] : o \in OrderedLists(distinct)}]

-----------------------------------------------------------------------------
(* The date resolver on its own: every phrase of the vocabulary on every day *)

Words == <<
    sYesterday,
    sToday,
    sThisWeek,
    sLast,
    weekday_map[1], weekday_map[2], weekday_map[3], weekday_map[4],
    weekday_map[5], weekday_map[6], weekday_map[7],
    <<"L","a","s","t">>,
    WeekdayNames[5],
    <<"b","a","n","a","n","a">>,
    <<"2","0","2","4","-","0","8","-","2","0">>,
    <<"2","0","2","4","-","8","-","5">>,
    <<"2","0","2","4","-","0","2","-","3","0">> >>

\* the words joined by single spaces
RECURSIVE Phrase(_)
Phrase(ws) ==
    IF Len(ws) = 0 THEN << >>
    ELSE IF Len(ws) = 1 THEN Words[ws[1]]
    ELSE Words[ws[1]] \o <<" ">> \o Phrase(Tail(ws))

Queries ==
    {Phrase(ws) : ws \in UNION {[1..n -> 1..Len(Words)] : n \in 1..MaxWords}}

\* "today" ranges over the days around a year end and around a leap day
Anchors == {[y |-> 2023, m |-> 12, d |-> 25], [y |-> 2024, m |-> 2, d |-> 24]}
Days == {PlusDays(a, k) : a \in Anchors, k \in 0..(NumDays - 1)}

NoEntry == [extracted_count |-> 0, metadata_count |-> 0]

EmptyCrit == [kind |-> "none", date_query |-> << >>, topic |-> << >>,
              category |-> << >>, tags |-> << >>, importance |-> 0]

\* "max_history": 10 of the default configuration
DefaultMaxHistory == 10

\* the largest max_history a configuration file of the model sets
MaxConfigured == 2

InitDate ==
    /\ now \in Days
    /\ query \in Queries
    /\ result = RetNone
    /\ last = "init"
    /\ extracted_info = << >>
    /\ metadata_index = << >>
    /\ ei_seq = 0
    /\ mi_seq = 0
    /\ system_knowledge = << >>
    /\ pc = "main"
    /\ results = << >>
    /\ streak = 0
    /\ rebuilt = FALSE
    /\ queried = FALSE
    /\ crit = EmptyCrit
    /\ entry = NoEntry
    /\ importance_in = << >>
    /\ conversations = << >>
    /\ candidates = << >>
    /\ broken = {}
    /\ reported = "none"
    /\ chat_history = << >>
    /\ max_history = DefaultMaxHistory

ParseDateQuery ==
    /\ last = "init"
    /\ result' = parse_date_query(query, now)
    /\ last' = "parse_date_query"
    /\ UNCHANGED <<now, query, extracted_info, metadata_index, ei_seq, mi_seq,
                   system_knowledge, pc, results, streak, rebuilt, queried, crit,
                   entry, importance_in, conversations, candidates, broken,
                   reported, chat_history, max_history>>

NextDate == ParseDateQuery

SpecDate == InitDate /\ [][NextDate]_vars

\* a zero-padded YYYY-MM-DD string that denotes a calendar date
IsDateKey(s) ==
    /\ Len(s) = 10
    /\ \A i \in {1, 2, 3, 4, 6, 7, 9, 10} : IsDigit(s[i])
    /\ s[5] = "-"
    /\ s[8] = "-"
    /\ IsValidDate(DigitVal(s[1]) * 1000 + DigitVal(s[2]) * 100
                     + DigitVal(s[3]) * 10 + DigitVal(s[4]),
                   DigitVal(s[6]) * 10 + DigitVal(s[7]),
                   DigitVal(s[9]) * 10 + DigitVal(s[10]))

\* the latest day strictly before today whose weekday is w
LastWeekdayBefore(today, w) ==
    MinusDays(today, CHOOSE k \in 1..7 : Weekday(MinusDays(today, k)) = w)

\* C6: "last <weekday>" resolves to the date_key of the most recent day
\* strictly before today with that weekday, across month and year ends too.
C6_LastWeekday ==
    \A i \in 1..7 :
        (last = "parse_date_query" /\ query = sLast \o <<" ">> \o weekday_map[i])
            => result = RetStr(StrftimeYmd(LastWeekdayBefore(now, i - 1)))

\* C7: "yesterday" is today minus one day, "today" is today, "this week" is
\* today minus weekday-index days, across month and year ends too.
C7_RelativeDays ==
    last = "parse_date_query" =>
        /\ query = sYesterday => result = RetStr(StrftimeYmd(MinusDays(now, 1)))
        /\ query = sToday => result = RetStr(StrftimeYmd(now))
        /\ query = sThisWeek
              => result = RetStr(StrftimeYmd(MinusDays(now, Weekday(now))))

\* C8: parse_date_query never raises and returns None or a canonical date_key.
C8_TotalCanonical ==
    last = "parse_date_query" =>
        /\ result.kind # "raise"
        /\ result.kind = "str" => IsDateKey(result.val)

\* no rule of the relative vocabulary applies to the phrase
NoRelativePhrase(q) ==
    LET ql == Lower(q)
    IN  /\ ~Contains(ql, sYesterday)
        /\ ~Contains(ql, sToday)
        /\ ~Contains(ql, sThisWeek)
        /\ ~(Contains(ql, sLast) /\ \E i \in 1..7 : Contains(ql, weekday_map[i]))

\* C9: without a relative phrase, a strict YYYY-MM-DD date is returned
\* unchanged and anything else gives None.
C9_IsoOrNone ==
    (last = "parse_date_query" /\ NoRelativePhrase(query)) =>
        IF IsDateKey(query) THEN result = RetStr(query) ELSE result = RetNone

-----------------------------------------------------------------------------
(* The session: extraction saves, knowledge saves, rebuild, search *)

sCode == <<"c","o","d","e">>
sTasks == <<"t","a","s","k","s">>
sCodeSnippets == <<"c","o","d","e","_","s","n","i","p","p","e","t","s">>
sActionItems == <<"a","c","t","i","o","n","_","i","t","e","m","s">>
sSearchExtraction == <<"s","e","a","r","c","h","_","e","x","t","r","a","c","t","i","o","n">>
sPython == <<"P","y","t","h","o","n">>
sBanana == <<"b","a","n","a","n","a">>
sExtractedFrom == <<"E","x","t","r","a","c","t","e","d"," ","f","r","o","m"," ",
                    "s","e","a","r","c","h",":"," ">>

\* what extract_code_snippets hands to collect_metadata_and_save for a candidate
Flows == {
    [title |-> <<"C","o","d","e">>, content |-> <<"x"," ","="," ","1">>,
     category |-> sCode, extraction_type |-> sCodeSnippets,
     context |-> <<"u","s","e"," ","J","s","o","n">>] }

TopicAnswers == {<< >>, sPython}
ImportanceAnswers == {<< >>, <<" ","4">>, <<"9">>, <<"-","2">>, <<"h","i">>}
DateAnswers == {<< >>, sToday, sYesterday, sBanana,
                <<"2","0","2","3","-","1","2","-","3","0">>}
sPy == <<"p","y">>
sJson == <<"j","s","o","n">>
\* the answers to the four prompts of combined_search: date, topic, category, tags
CombinedAnswers == {
    <<<< >>, << >>, << >>, << >>>>,
    <<sBanana, << >>, << >>, << >>>>,
    <<sBanana, sPy, << >>, << >>>>,
    <<sToday, sPy, << >>, << >>>>,
    <<<< >>, << >>, <<"C","o","d","e">>, << >>>>,
    <<<< >>, << >>, << >>, <<"x",","," ","J","s","o","n">>>>,
    <<<<"2","0","2","3","-","1","2","-","3","0">>, sPy, sCode, sJson>>,
    <<<< >>, <<"p","_">>, << >>, << >>>>,
    <<<< >>, sPy, << >>, <<"x",","," ","J","s","o","n">>>> }

\* the answers to the prompts of the single-criterion searches
TopicQueries == {<< >>, sPy, <<"p","_">>, <<"G","e","n">>}
CategoryQueries == {<< >>, <<"1">>, <<"9">>, sCode, <<"C","o","d","e"," ">>,
                    <<SuperscriptTwo>>}
TagQueries == {<< >>, sJson, <<"x",","," ","J","s","o","n">>, <<"t","o","d","o",",">>}
\* menu choice and custom level of search_by_importance
ImportanceQueries == {
    <<<<"1">>, << >>>>, <<<<"2">>, << >>>>, <<<<"3">>, << >>>>,
    <<<<"4">>, <<"2">>>>, <<<<"4">>, <<" ","4">>>>, <<<<"4">>, <<"9">>>>,
    <<<<"4">>, <<"h","i">>>>, <<<<"7">>, << >>>> }

\* the session runs on the last day of a year or on the first of the next
SessionDays == {[y |-> 2023, m |-> 12, d |-> 31], [y |-> 2024, m |-> 1, d |-> 1]}

\* rows an earlier session has left in the database file
InitInfoRows == {
    [title |-> <<"C","o","d","e">>, content |-> <<"x"," ","="," ","1">>,
     category |-> sCode, extraction_type |-> sCodeSnippets, topic |-> sPython,
     tags |-> <<"j","s","o","n">>, importance_level |-> 5,
     created_at |-> CurrentTimestamp([y |-> 2023, m |-> 12, d |-> 30])],
    [title |-> <<"T","a","s","k">>, content |-> <<"t","o","d","o"," ","f","i","x">>,
     category |-> sTasks, extraction_type |-> sActionItems, topic |-> sGeneral,
     tags |-> <<"t","o","d","o">>, importance_level |-> 1,
     created_at |-> NULL] }

WithId(row, new_id) ==
    [id |-> new_id, title |-> row.title, content |-> row.content,
     category |-> row.category, extraction_type |-> row.extraction_type,
     topic |-> row.topic, tags |-> row.tags,
     importance_level |-> row.importance_level, created_at |-> row.created_at]

InitInfoTables ==
    UNION {{[i \in 1..n |-> WithId(rows[i], i)] : rows \in [1..n -> InitInfoRows]} :
              n \in 0..MaxInitRows}

\* an index row left behind for extracted_info id ref, which may be gone
InitIndexRow(new_id, ref) ==
    RebuildRow(new_id, WithId(CHOOSE r \in InitInfoRows : r.importance_level = 5, ref))

InitIndexTables ==
    UNION {{[j \in 1..n |-> InitIndexRow(j, refs[j])] :
               refs \in [1..n -> 1..(MaxInitRows + 1)]} : n \in 0..MaxInitIndex}

\* what an operation outside search_memory leaves of the last search
NoSearch ==
    /\ rebuilt' = FALSE
    /\ entry' = NoEntry
    /\ results' = << >>
    /\ queried' = FALSE
    /\ crit' = EmptyCrit
    /\ query' = << >>
    /\ result' = NotCalled

InitSession ==
    /\ now \in SessionDays
    /\ system_knowledge = << >>
    /\ pc = "main"
    /\ results = << >>
    /\ last = "init"
    /\ streak = 0
    /\ rebuilt = FALSE
    /\ queried = FALSE
    /\ crit = EmptyCrit
    /\ entry = NoEntry
    /\ importance_in = << >>
    /\ query = << >>
    /\ result = NotCalled
    /\ candidates = << >>
    /\ broken = {}
    /\ reported = "none"
    /\ chat_history = << >>

\* a session on a new database file: init_database has created empty tables
Init ==
    /\ InitSession
    /\ max_history = DefaultMaxHistory
    /\ conversations = << >>
    /\ extracted_info = << >>
    /\ metadata_index = << >>
    /\ ei_seq = 0
    /\ mi_seq = 0

\* a session on a database file that earlier sessions, other versions of the
\* program or other tools have written: any rows, in step or not
InitAnyDatabase ==
    /\ InitSession
    /\ max_history = DefaultMaxHistory
    /\ conversations = << >>
    /\ extracted_info \in InitInfoTables
    /\ metadata_index \in InitIndexTables
    /\ ei_seq = Len(extracted_info)
    /\ mi_seq = Len(metadata_index)

\* extracted_info and metadata_index rows are in one-to-one correspondence
IndexedOnce(ei, mi) ==
    /\ Len(mi) = Len(ei)
    /\ \A i \in 1..Len(ei) :
           Cardinality({j \in 1..Len(mi) : mi[j].extracted_info_id = ei[i].id}) = 1

\* a session on a database file whose index is in step with extracted_info
InitIndexed ==
    /\ InitAnyDatabase
    /\ IndexedOnce(extracted_info, metadata_index)

\* the tables of the database file
Tables == {"conversations", "extracted_info", "metadata_index", "system_knowledge"}

\* a statement on one of tables raises: the table is in broken (all four are
\* when the file cannot be opened or read)
Fails(tables) == tables \cap broken # {}

\* the tables the searches join
SearchTables == {"extracted_info", "metadata_index"}

\* validate_database_connection: the tuple (ok, message) it returns
validate_database_connection ==
    IF Fails({"conversations", "extracted_info"})
    THEN <<FALSE, "Database operational error">>
    ELSE <<TRUE, "Database connection successful">>

\* bool(t) of a tuple t
Truthy(t) == Len(t) > 0

\* the try block of validate_search_prerequisites raises, or returns False
\* at `if not self.validate_database_connection()`
ValidationFails ==
    \/ ~Truthy(validate_database_connection)
    \/ Fails(SearchTables)

\* a save that commits the extracted_info row before it writes the index row
SaveWithMetadata_InfoOnly(title, content, category, extraction_type, topic, importance, tags) ==
    IF Fails({"extracted_info"})
    THEN UNCHANGED <<extracted_info, ei_seq, metadata_index, mi_seq>>
    ELSE /\ extracted_info' = Append(extracted_info,
                SavedInfoRow(ei_seq + 1, title, content, category, extraction_type, topic,
                             importance, tags, CurrentTimestamp(now)))
         /\ ei_seq' = ei_seq + 1
         /\ IF Fails({"metadata_index"})
            THEN UNCHANGED <<metadata_index, mi_seq>>
            ELSE /\ metadata_index' = Append(metadata_index,
                        SavedIndexRow(mi_seq + 1, ei_seq + 1, now, topic, category, tags))
                 /\ mi_seq' = mi_seq + 1

\* save_extracted_info_with_metadata: both INSERTs and the commit, or an
\* exception before the commit, which is printed and leaves no row
SaveWithMetadata(title, content, category, extraction_type, topic, importance, tags) ==
    IF Fails(SearchTables)
    THEN UNCHANGED <<extracted_info, ei_seq, metadata_index, mi_seq>>
    ELSE /\ extracted_info' = Append(extracted_info,
                SavedInfoRow(ei_seq + 1, title, content, category, extraction_type, topic,
                             importance, tags, CurrentTimestamp(now)))
         /\ ei_seq' = ei_seq + 1
         /\ metadata_index' = Append(metadata_index,
                SavedIndexRow(mi_seq + 1, ei_seq + 1, now, topic, category, tags))
         /\ mi_seq' = mi_seq + 1

\* collect_metadata_and_save, called by an extraction flow with one candidate
CollectMetadataAndSave ==
    /\ pc = "main"
    /\ Len(extracted_info) < MaxRows
    /\ mi_seq < MaxSeq
    /\ \E flow \in Flows, topic_in \in TopicAnswers, answer \in ImportanceAnswers :
          \E final_tags \in FinalTags(flow.context, flow.content, << >>) :
             /\ SaveWithMetadata(flow.title, flow.content, flow.category,
                                 flow.extraction_type, TopicFromInput(topic_in),
                                 ImportanceFromInput(answer), final_tags)
             /\ importance_in' = answer
    /\ last' = "collect_metadata_and_save"
    /\ streak' = 0
    /\ NoSearch
    /\ UNCHANGED <<now, system_knowledge, pc>>
    /\ UNCHANGED <<conversations, candidates, broken, chat_history, max_history>>
    /\ reported' = "saved"

\* save_system_knowledge
SaveSystemKnowledge ==
    /\ pc = "main"
    /\ Len(system_knowledge) < MaxKnowledge
    /\ system_knowledge' = Append(system_knowledge,
           [id |-> Len(system_knowledge) + 1, importance_level |-> 3])
    /\ last' = "save_system_knowledge"
    /\ streak' = 0
    /\ importance_in' = << >>
    /\ NoSearch
    /\ UNCHANGED <<now, extracted_info, metadata_index, ei_seq, mi_seq, pc>>
    /\ UNCHANGED <<conversations, candidates, broken, chat_history, max_history>>
    /\ reported' = "none"

\* rebuild_metadata_index called as a repair action
RebuildMetadataIndex ==
    /\ pc = "main"
    /\ mi_seq + Len(extracted_info) <= MaxSeq
    /\ LET r == rebuild_metadata_index(extracted_info, metadata_index, mi_seq)
       IN  IF Fails(SearchTables)
           THEN UNCHANGED <<metadata_index, mi_seq>>
           ELSE /\ metadata_index' = r.metadata_index
                /\ mi_seq' = r.mi_seq
    /\ last' = "rebuild_metadata_index"
    /\ streak' = Min(streak + 1, 2)
    /\ importance_in' = << >>
    /\ NoSearch
    /\ UNCHANGED <<now, extracted_info, ei_seq, system_knowledge, pc>>
    /\ UNCHANGED <<conversations, candidates, broken, chat_history, max_history>>
    /\ reported' = IF Fails(SearchTables) THEN "rebuild_error"
                   ELSE IF extracted_info = << >> THEN "nothing_to_index" ELSE "rebuilt"

\* rebuild_metadata_index called as a repair action and failing inside its
\* loop, after some rows and before the last
RebuildInterrupted ==
    /\ pc = "main"
    /\ Len(extracted_info) >= 2
    /\ \E done \in 1..(Len(extracted_info) - 1) :
           LET r == rebuild_metadata_index_raises(extracted_info, metadata_index, mi_seq, done)
           IN  /\ metadata_index' = r.metadata_index
               /\ mi_seq' = r.mi_seq
    /\ last' = "rebuild_interrupted"
    /\ streak' = 0
    /\ importance_in' = << >>
    /\ NoSearch
    /\ UNCHANGED <<now, extracted_info, ei_seq, system_knowledge, pc>>
    /\ UNCHANGED <<conversations, candidates, broken, chat_history, max_history>>
    /\ reported' = "rebuild_error"

\* `if metadata_count == 0:` of validate_search_prerequisites
NeedsRebuild(extracted_count, metadata_count) == metadata_count = 0

\* search_memory up to its menu: validate_search_prerequisites.  The tuple
\* validate_database_connection returns is always truthy.
SearchMemory ==
    /\ pc = "main"
    /\ LET extracted_count == Len(extracted_info)
           metadata_count == Len(metadata_index)
           r == rebuild_metadata_index(extracted_info, metadata_index, mi_seq)
       IN  /\ entry' = IF ValidationFails THEN NoEntry
                       ELSE [extracted_count |-> extracted_count,
                             metadata_count |-> metadata_count]
           /\ IF ValidationFails \/ extracted_count = 0
              THEN /\ pc' = "main"
                   /\ rebuilt' = FALSE
                   /\ UNCHANGED <<metadata_index, mi_seq>>
              ELSE IF NeedsRebuild(extracted_count, metadata_count)
              THEN /\ mi_seq + extracted_count <= MaxSeq
                   /\ metadata_index' = r.metadata_index
                   /\ mi_seq' = r.mi_seq
                   /\ rebuilt' = TRUE
                   /\ pc' = "search_menu"
              ELSE /\ pc' = "search_menu"
                   /\ rebuilt' = FALSE
                   /\ UNCHANGED <<metadata_index, mi_seq>>
    /\ last' = "search_memory"
    /\ streak' = 0
    /\ importance_in' = << >>
    /\ results' = << >>
    /\ queried' = FALSE
    /\ crit' = EmptyCrit
    /\ query' = << >>
    /\ result' = NotCalled
    /\ UNCHANGED <<now, extracted_info, ei_seq, system_knowledge>>
    /\ UNCHANGED <<conversations, candidates, broken, chat_history, max_history>>
    /\ reported' = IF ValidationFails THEN "validation_error"
                   ELSE IF extracted_info = << >> THEN "not_ready" ELSE "menu"

\* display_search_results shows a non-empty list and waits for an action
AfterDisplay(list) == IF list = << >> THEN "main" ELSE "results"

\* what display_search_results prints first
Shown(list) == IF list = << >> THEN "no_results" ELSE "found"

\* menu choice 1: search_by_date
SearchByDate ==
    /\ pc = "search_menu"
    /\ \E answer \in DateAnswers :
          LET date_query == Strip(answer)
              search_date == parse_date_query(date_query, now)
          IN  /\ crit' = [EmptyCrit EXCEPT !.kind = "date", !.date_query = date_query]
              /\ query' = date_query
              /\ IF date_query = << >>
                 THEN /\ result' = NotCalled
                      /\ queried' = FALSE
                      /\ results' = << >>
                      /\ pc' = "main"
                      /\ reported' = "no_input"
                 ELSE /\ result' = search_date
                      /\ IF search_date.kind = "raise"
                         THEN /\ queried' = FALSE
                              /\ results' = << >>
                              /\ pc' = "crashed"
                              /\ reported' = "traceback"
                         ELSE IF search_date.kind = "none"
                         THEN /\ queried' = FALSE
                              /\ results' = << >>
                              /\ pc' = "main"
                              /\ reported' = "bad_date"
                         ELSE IF Fails(SearchTables)
                         THEN /\ queried' = TRUE
                              /\ results' = << >>
                              /\ pc' = "main"
                              /\ reported' = "search_error"
                         ELSE /\ queried' = TRUE
                              /\ results' \in search_database_by_date(
                                     extracted_info, metadata_index, search_date.val)
                              /\ pc' = AfterDisplay(results')
                              /\ reported' = Shown(results')
    /\ last' = "search_by_date"
    /\ streak' = 0
    /\ UNCHANGED <<now, extracted_info, metadata_index, ei_seq, mi_seq,
                   system_knowledge, rebuilt, entry, importance_in>>
    /\ UNCHANGED <<conversations, candidates, broken, chat_history, max_history>>

\* a combined_search that plays every answer as a criterion
NoCriteria_Never(date_query, topic, category, tags) == FALSE

\* `if not search_criteria:` of combined_search
NoCriteria(date_query, topic, category, tags) ==
    date_query = << >> /\ topic = << >> /\ category = << >> /\ tags = << >>

\* menu choice 6: combined_search
CombinedSearch ==
    /\ pc = "search_menu"
    /\ \E answers \in CombinedAnswers :
          LET date_query == Strip(answers[1])
              topic == Strip(answers[2])
              category == Strip(answers[3])
              tags == Strip(answers[4])
              found == execute_combined_search(extracted_info, metadata_index, now,
                                               date_query, topic, category, tags)
          IN  /\ crit' = [kind |-> "combined", date_query |-> date_query,
                          topic |-> topic, category |-> category, tags |-> tags,
                          importance |-> 0]
              /\ query' = date_query
              /\ IF NoCriteria(date_query, topic, category, tags)
                 THEN /\ result' = NotCalled
                      /\ queried' = FALSE
                      /\ results' = << >>
                      /\ pc' = "main"
                      /\ reported' = "no_criteria"
                 ELSE IF Fails(SearchTables) /\ found.queried
                 THEN /\ result' = CombinedParse(date_query, now)
                      /\ queried' = TRUE
                      /\ results' = << >>
                      /\ pc' = "main"
                      /\ reported' = "search_error"
                 ELSE /\ result' = CombinedParse(date_query, now)
                      /\ queried' = found.queried
                      /\ results' \in found.lists
                      /\ pc' = AfterDisplay(results')
                      /\ reported' = Shown(results')
    /\ last' = "combined_search"
    /\ streak' = 0
    /\ UNCHANGED <<now, extracted_info, metadata_index, ei_seq, mi_seq,
                   system_knowledge, rebuilt, entry, importance_in>>
    /\ UNCHANGED <<conversations, candidates, broken, chat_history, max_history>>

\* what a single-criterion search leaves: the list found, shown if not empty
Searched(kind, list) ==
    /\ queried' = TRUE
    /\ results' = list
    /\ pc' = AfterDisplay(list)
    /\ last' = kind
    /\ reported' = Shown(list)

\* what a search leaves whose search_database_by_... raised: the exception is
\* printed, the list is empty
SearchFailed(kind) ==
    /\ queried' = TRUE
    /\ results' = << >>
    /\ pc' = "main"
    /\ last' = kind
    /\ reported' = "search_error"

\* what a search that returns before its query leaves
NotSearched(kind) ==
    /\ queried' = FALSE
    /\ results' = << >>
    /\ pc' = "main"
    /\ last' = kind
    /\ reported' = "no_input"

\* menu choice 2: search_by_topic
SearchByTopic ==
    /\ pc = "search_menu"
    /\ \E answer \in TopicQueries :
          LET topic == Strip(answer)
          IN  /\ crit' = [EmptyCrit EXCEPT !.kind = "topic", !.topic = topic]
              /\ IF topic = << >>
                 THEN NotSearched("search_by_topic")
                 ELSE IF Fails(SearchTables)
                 THEN SearchFailed("search_by_topic")
                 ELSE \E list \in search_database_by_topic(
                             extracted_info, metadata_index, Lower(topic)) :
                         Searched("search_by_topic", list)
    /\ streak' = 0
    /\ query' = << >>
    /\ result' = NotCalled
    /\ UNCHANGED <<now, extracted_info, metadata_index, ei_seq, mi_seq,
                   system_knowledge, rebuilt, entry, importance_in>>
    /\ UNCHANGED <<conversations, candidates, broken, chat_history, max_history>>

\* menu choice 3: search_by_category.  A number picks from the list shown;
\* int() of a string that isdigit() accepts can still raise ValueError.
SearchByCategory ==
    /\ pc = "search_menu"
    /\ \E answer \in CategoryQueries :
          LET typed == Strip(answer)
              categories == IF Fails({"extracted_info"}) THEN << >>
                            ELSE get_available_categories(extracted_info)
              numbered == IsDigitStr(typed)
              category == IF numbered /\ IntOk(typed) /\ IntVal(typed) \in 1..Len(categories)
                          THEN categories[IntVal(typed)] ELSE typed
          IN  /\ crit' = [EmptyCrit EXCEPT !.kind = "category", !.category = category]
              /\ IF numbered /\ ~IntOk(typed)
                 THEN /\ queried' = FALSE
                      /\ results' = << >>
                      /\ pc' = "crashed"
                      /\ last' = "search_by_category"
                      /\ reported' = "traceback"
                 ELSE IF \/ numbered /\ IntVal(typed) \notin 1..Len(categories)
                         \/ category = << >>
                 THEN NotSearched("search_by_category")
                 ELSE IF Fails(SearchTables)
                 THEN SearchFailed("search_by_category")
                 ELSE \E list \in search_database_by_category(
                             extracted_info, metadata_index, Lower(category)) :
                         Searched("search_by_category", list)
    /\ streak' = 0
    /\ query' = << >>
    /\ result' = NotCalled
    /\ UNCHANGED <<now, extracted_info, metadata_index, ei_seq, mi_seq,
                   system_knowledge, rebuilt, entry, importance_in>>
    /\ UNCHANGED <<conversations, candidates, broken, chat_history, max_history>>

\* menu choice 4: search_by_tags
SearchByTags ==
    /\ pc = "search_menu"
    /\ \E answer \in TagQueries :
          LET tags == Strip(answer)
          IN  /\ crit' = [EmptyCrit EXCEPT !.kind = "tags", !.tags = tags]
              /\ IF tags = << >>
                 THEN NotSearched("search_by_tags")
                 ELSE IF Fails(SearchTables)
                 THEN SearchFailed("search_by_tags")
                 ELSE \E list \in search_database_by_tags(
                             extracted_info, metadata_index, TagList(tags)) :
                         Searched("search_by_tags", list)
    /\ streak' = 0
    /\ query' = << >>
    /\ result' = NotCalled
    /\ UNCHANGED <<now, extracted_info, metadata_index, ei_seq, mi_seq,
                   system_knowledge, rebuilt, entry, importance_in>>
    /\ UNCHANGED <<conversations, candidates, broken, chat_history, max_history>>

\* the level search_by_importance derives from the menu choice and, for
\* choice 4, from the custom level typed; 0 when it returns without a search
ImportanceLevel(choice, custom) ==
    IF choice = <<"1">> THEN 1
    ELSE IF choice = <<"2">> THEN 3
    ELSE IF choice = <<"3">> THEN 5
    ELSE IF choice = <<"4">> /\ IntOk(custom) THEN ClampImportance(IntVal(custom))
    ELSE 0

\* menu choice 5: search_by_importance
SearchByImportance ==
    /\ pc = "search_menu"
    /\ \E answers \in ImportanceQueries :
          LET level == ImportanceLevel(Strip(answers[1]), Strip(answers[2]))
          IN  /\ crit' = [EmptyCrit EXCEPT !.kind = "importance", !.importance = level]
              /\ IF level = 0
                 THEN NotSearched("search_by_importance")
                 ELSE IF Fails({"extracted_info"})
                 THEN SearchFailed("search_by_importance")
                 ELSE \E list \in search_database_by_importance(extracted_info, level) :
                         Searched("search_by_importance", list)
    /\ streak' = 0
    /\ query' = << >>
    /\ result' = NotCalled
    /\ UNCHANGED <<now, extracted_info, metadata_index, ei_seq, mi_seq,
                   system_knowledge, rebuilt, entry, importance_in>>
    /\ UNCHANGED <<conversations, candidates, broken, chat_history, max_history>>

\* menu choice 7
SearchCancel ==
    /\ pc = "search_menu"
    /\ pc' = "main"
    /\ last' = "search_cancel"
    /\ streak' = 0
    /\ UNCHANGED <<now, extracted_info, metadata_index, ei_seq, mi_seq,
                   system_knowledge, results, rebuilt, queried, crit, entry,
                   importance_in, query, result>>
    /\ UNCHANGED <<conversations, candidates, broken, chat_history, max_history>>
    /\ reported' = "cancelled"

sExtract == <<"e","x","t","r","a","c","t"," ">>

\* `extract <k>` that takes the first result whatever k is
ResultExtract_First(limit) ==
    /\ pc = "results"
    /\ Len(extracted_info) <= limit
    /\ mi_seq < MaxSeq
    /\ \E item_num \in 1..Len(results) :
          /\ query' = sExtract \o Pad(item_num, 1)
          /\ SaveWithMetadata(sExtractedFrom \o results[1].title, results[1].content,
                              results[1].category, sSearchExtraction, results[1].topic,
                              3, IF results[1].tags = NULL THEN << >> ELSE results[1].tags)
    /\ pc' = "main"
    /\ last' = "extract"
    /\ streak' = 0
    /\ UNCHANGED <<now, system_knowledge, results, rebuilt, queried, crit, entry,
                   importance_in, result>>
    /\ UNCHANGED <<conversations, candidates, broken, chat_history, max_history>>
    /\ reported' = "extracted"

\* action `extract <k>` of display_search_results, k a position of the list,
\* on a table of at most limit rows
ResultExtractWithin(limit) ==
    /\ pc = "results"
    /\ Len(extracted_info) <= limit
    /\ mi_seq < MaxSeq
    /\ \E item_num \in 1..Len(results) :
          LET selected == results[item_num]
          IN  /\ query' = sExtract \o Pad(item_num, 1)
              /\ SaveWithMetadata(sExtractedFrom \o selected.title, selected.content,
                                  selected.category, sSearchExtraction, selected.topic,
                                  3, IF selected.tags = NULL THEN << >> ELSE selected.tags)
    /\ pc' = "main"
    /\ last' = "extract"
    /\ streak' = 0
    /\ UNCHANGED <<now, system_knowledge, results, rebuilt, queried, crit, entry,
                   importance_in, result>>
    /\ UNCHANGED <<conversations, candidates, broken, chat_history, max_history>>
    /\ reported' = "extracted"

ResultExtract == ResultExtractWithin(MaxRows)

\* actions `exit`, `copyall` and `copy <k>` of display_search_results
ResultExit ==
    /\ pc = "results"
    /\ pc' = "main"
    /\ last' = "results_exit"
    /\ streak' = 0
    /\ UNCHANGED <<now, extracted_info, metadata_index, ei_seq, mi_seq,
                   system_knowledge, results, rebuilt, queried, crit, entry,
                   importance_in, query, result>>
    /\ UNCHANGED <<conversations, candidates, broken, chat_history, max_history>>
    /\ reported' = "none"

Next ==
    \/ CollectMetadataAndSave
    \/ SaveSystemKnowledge
    \/ RebuildMetadataIndex
    \/ SearchMemory
    \/ SearchByDate
    \/ CombinedSearch
    \/ SearchCancel
    \/ ResultExtract
    \/ ResultExit

Spec == Init /\ [][Next]_vars

-----------------------------------------------------------------------------
(* The searches on a database the program itself has filled *)

\* what earlier sessions saved: title, content, category, extraction_type,
\* topic, importance, tags
QueryKinds == {
    <<<<"C","o","d","e">>, <<"x"," ","="," ","1">>, sCode, sCodeSnippets, sPython, 4, sJson>>,
    <<<<"C","o","d","e">>, <<"x"," ","="," ","1">>, sCode, sCodeSnippets, sPython, 3, sJson>>,
    <<<<"T","a","s","k">>, <<"t","o","d","o">>, sTasks, sActionItems, sGeneral, 3,
      <<"t","o","d","o">>>> }

\* the days of those saves
QueryDays == {[y |-> 2023, m |-> 12, d |-> 30], [y |-> 2023, m |-> 12, d |-> 31]}

\* the tables after saves[1], saves[2], ... through
\* save_extracted_info_with_metadata, each save a kind and the day it was made
SavedTables(saves) ==
    [extracted_info |->
        [i \in 1..Len(saves) |->
            LET k == saves[i][1]
            IN  SavedInfoRow(i, k[1], k[2], k[3], k[4], k[5], k[6], k[7],
                             CurrentTimestamp(saves[i][2]))],
     metadata_index |->
        [i \in 1..Len(saves) |->
            LET k == saves[i][1]
            IN  SavedIndexRow(i, i, saves[i][2], k[5], k[3], k[7])]]

\* days never run backwards
QuerySaves ==
    UNION {{sv \in [1..n -> QueryKinds \X QueryDays] :
               \A i \in 1..(n - 1) : ~TextLess(StrftimeYmd(sv[i + 1][2]),
                                               StrftimeYmd(sv[i][2]))} :
           n \in 0..MaxQueryRows}

InitQuery ==
    /\ InitSession
    /\ max_history = DefaultMaxHistory
    /\ now = [y |-> 2023, m |-> 12, d |-> 31]
    /\ conversations = << >>
    /\ \E saves \in QuerySaves :
          /\ extracted_info = SavedTables(saves).extracted_info
          /\ metadata_index = SavedTables(saves).metadata_index
    /\ ei_seq = Len(extracted_info)
    /\ mi_seq = Len(metadata_index)

NextQuery ==
    \/ SearchMemory
    \/ SearchByDate
    \/ SearchByTopic
    \/ SearchByCategory
    \/ SearchByTags
    \/ SearchByImportance
    \/ CombinedSearch
    \/ SearchCancel
    \/ ResultExit

SpecQuery == InitQuery /\ [][NextQuery]_vars

\* the same searches on any database file
SpecAnySearch == InitAnyDatabase /\ [][NextQuery]_vars

\* `extract <k>` on the result lists of those searches
QueryResultExtract == ResultExtractWithin(MaxQueryRows)

NextResults ==
    \/ SearchMemory
    \/ SearchByDate
    \/ SearchByTopic
    \/ SearchByCategory
    \/ SearchByTags
    \/ SearchByImportance
    \/ CombinedSearch
    \/ SearchCancel
    \/ QueryResultExtract
    \/ ResultExit

SpecResults == InitQuery /\ [][NextResults]_vars

-----------------------------------------------------------------------------
(* Extraction from the conversation history *)

\* the one character U+0060 (grave accent), written "^t" here
Backtick == "^t"
sFence == <<Backtick, Backtick, Backtick>>

\* INSERT INTO conversations
ConversationRow(new_id, user_message, assistant_response, today) ==
    [id |-> new_id, user_message |-> user_message,
     assistant_response |-> assistant_response,
     timestamp |-> CurrentTimestamp(today)]

\* get_conversation_history(limit): ORDER BY timestamp DESC LIMIT ?; rows with
\* the same timestamp come in an order SQL leaves open
get_conversation_history(cs, limit) ==
    {SubSeq(o, 1, Min(limit, Len(o))) :
        o \in {h \in SetOrders(Range(cs)) :
                  \A a, b \in 1..Len(h) :
                      a < b => ~TextLess(h[a].timestamp, h[b].timestamp)}}

StartsWith(s, prefix) ==
    Len(s) >= Len(prefix) /\ SubSeq(s, 1, Len(prefix)) = prefix

code_prefixes == <<
    <<"d","e","f"," ">>, <<"c","l","a","s","s"," ">>,
    <<"i","m","p","o","r","t"," ">>, <<"f","r","o","m"," ">>,
    <<"i","f"," ","_","_","n","a","m","e","_","_">>, <<"p","r","i","n","t","(">>,
    <<"r","e","t","u","r","n"," ">>, <<"f","o","r"," ">>,
    <<"w","h","i","l","e"," ">> >>

\* a loop that skips the marker lines without changing in_code_block
RECURSIVE CodeBlock_NoToggle(_, _)
CodeBlock_NoToggle(lines, in_code_block) ==
    IF lines = << >> THEN << >>
    ELSE LET line == Head(lines)
         IN  IF Contains(line, sFence)
             THEN CodeBlock_NoToggle(Tail(lines), in_code_block)
             ELSE IF \/ in_code_block
                     \/ \E i \in 1..Len(code_prefixes) :
                           StartsWith(Strip(line), code_prefixes[i])
             THEN <<line>> \o CodeBlock_NoToggle(Tail(lines), in_code_block)
             ELSE CodeBlock_NoToggle(Tail(lines), in_code_block)

\* the loop over the lines of an assistant message: code_block
RECURSIVE CodeBlock(_, _)
CodeBlock(lines, in_code_block) ==
    IF lines = << >> THEN << >>
    ELSE LET line == Head(lines)
         IN  IF Contains(line, sFence)
             THEN CodeBlock(Tail(lines), ~in_code_block)
             ELSE IF \/ in_code_block
                     \/ \E i \in 1..Len(code_prefixes) :
                           StartsWith(Strip(line), code_prefixes[i])
             THEN <<line>> \o CodeBlock(Tail(lines), in_code_block)
             ELSE CodeBlock(Tail(lines), in_code_block)

sCodeSnippetFrom == <<"C","o","d","e"," ","S","n","i","p","p","e","t"," ",
                      "f","r","o","m"," ">>

\* what the selection loop saves for a candidate: the arguments of
\* collect_metadata_and_save
Candidate(title, content, category, extraction_type, context) ==
    [title |-> title, content |-> content, category |-> category,
     extraction_type |-> extraction_type, context |-> context]

\* code_snippets of extract_code_snippets, as the candidates of its loop
RECURSIVE code_snippets(_)
code_snippets(history) ==
    IF history = << >> THEN << >>
    ELSE LET conv == Head(history)
             code_block == CodeBlock(SplitOn(conv.assistant_response, "\n"), FALSE)
         IN  (IF code_block # << >>
              THEN <<Candidate(sCodeSnippetFrom \o conv.timestamp,
                               Join(code_block, <<"\n">>), sCode, sCodeSnippets,
                               conv.user_message)>>
              ELSE << >>)
             \o code_snippets(Tail(history))

action_patterns == <<
    <<"t","o","d","o",":">>, <<"t","o"," ","d","o",":">>,
    <<"a","c","t","i","o","n",":">>, <<"t","a","s","k",":">>,
    <<"n","e","x","t",":">>, <<"r","e","m","e","m","b","e","r"," ","t","o">>,
    <<"m","a","k","e"," ","s","u","r","e"," ","t","o">>,
    <<"d","o","n","'","t"," ","f","o","r","g","e","t">>,
    <<"y","o","u"," ","s","h","o","u","l","d">>,
    <<"y","o","u"," ","n","e","e","d"," ","t","o">> >>

sActionItem == <<"A","c","t","i","o","n"," ","I","t","e","m",":"," ">>
sEllipsis == <<".",".",".">>

\* s[:n]
Prefix(s, n) == SubSeq(s, 1, Min(n, Len(s)))

\* the first sentence of content that holds the pattern, stripped
FirstSentenceWith(content, pattern) ==
    LET sentences == SplitOn(content, ".")
        k == CHOOSE i \in 1..Len(sentences) :
                 /\ Contains(Lower(sentences[i]), pattern)
                 /\ \A j \in 1..(i - 1) : ~Contains(Lower(sentences[j]), pattern)
    IN  Strip(sentences[k])

\* action_items of extract_action_items, as the candidates of its loop
RECURSIVE action_items(_)
action_items(history) ==
    IF history = << >> THEN << >>
    ELSE LET conv == Head(history)
             content == conv.user_message \o <<" ">> \o conv.assistant_response
             Found(pattern) == Contains(Lower(content), pattern)
             found == SelectSeq(action_patterns, Found)
         IN  [i \in 1..Len(found) |->
                 LET sentence == FirstSentenceWith(content, found[i])
                 IN  Candidate(sActionItem \o Prefix(sentence, 50) \o sEllipsis,
                               sentence, sTasks, sActionItems, << >>)]
             \o action_items(Tail(history))

\* str.upper() on one character
UpperChar(c) ==
    IF \E i \in 1..26 : LowerAlpha[i] = c
    THEN UpperAlpha[CHOOSE i \in 1..26 : LowerAlpha[i] = c]
    ELSE c

\* str.title(): a letter after a non-letter is upper-cased, any other lowered
Title(s) ==
    [i \in 1..Len(s) |->
        IF i = 1 \/ ~IsLetter(s[i - 1]) THEN UpperChar(s[i]) ELSE LowerChar(s[i])]

sCustom == <<"c","u","s","t","o","m">>
sUserColon == <<"U","s","e","r",":"," ">>
sAssistantColon == <<"\n","\n","A","s","s","i","s","t","a","n","t",":"," ">>

\* matching_conversations of extract_custom: with a search text, a list of
\* dicts made from the conversations that hold it; without, the list of row
\* tuples get_conversation_history returned, as it is
matching_conversations(history, search_text) ==
    LET Holds(conv) ==
            Contains(Lower(conv.user_message \o <<" ">> \o conv.assistant_response),
                     Lower(search_text))
        kept == SelectSeq(history, Holds)
    IN  IF search_text # << >>
        THEN [i \in 1..Len(kept) |-> [type |-> "dict", conv |-> kept[i]]]
        ELSE [i \in 1..Len(history) |-> [type |-> "tuple", conv |-> history[i]]]

\* conv['timestamp'] in the listing: a tuple takes no string index (TypeError)
ListingRaises(matching) == \E i \in 1..Len(matching) : matching[i].type = "tuple"

\* the candidates of the loop of extract_custom
CustomCandidates(matching, category) ==
    [i \in 1..Len(matching) |->
        LET conv == matching[i].conv
        IN  Candidate(Title(category) \o <<":", " ">> \o Prefix(conv.user_message, 50)
                          \o sEllipsis,
                      sUserColon \o conv.user_message \o sAssistantColon
                          \o conv.assistant_response,
                      Lower(category), sCustom, << >>)]

\* the four values a save changes
Database == [extracted_info |-> extracted_info, ei_seq |-> ei_seq,
             metadata_index |-> metadata_index, mi_seq |-> mi_seq]

\* save_extracted_info_with_metadata on db: both INSERTs and the commit
AfterSave(db, title, content, category, extraction_type, topic, importance, tags, today) ==
    [extracted_info |-> Append(db.extracted_info,
         SavedInfoRow(db.ei_seq + 1, title, content, category, extraction_type, topic,
                      importance, tags, CurrentTimestamp(today))),
     ei_seq |-> db.ei_seq + 1,
     metadata_index |-> Append(db.metadata_index,
         SavedIndexRow(db.mi_seq + 1, db.ei_seq + 1, today, topic, category, tags)),
     mi_seq |-> db.mi_seq + 1]

\* a loop that stops after its first candidate
CollectAll_FirstOnly(db, cands, answers, today) ==
    IF cands = << >> THEN {db}
    ELSE {AfterSave(db, cands[1].title, cands[1].content, cands[1].category,
                    cands[1].extraction_type, TopicFromInput(answers[1][1]),
                    ImportanceFromInput(answers[1][2]), final_tags, today) :
             final_tags \in FinalTags(cands[1].context, cands[1].content, << >>)}

\* `for snippet in code_snippets: self.collect_metadata_and_save(...)`: the
\* databases the loop can leave, answers[i] being the topic and importance
\* typed for candidate i
RECURSIVE CollectAll(_, _, _, _)
CollectAll(db, cands, answers, today) ==
    IF cands = << >> THEN {db}
    ELSE LET c == Head(cands)
             a == Head(answers)
         IN  UNION {CollectAll(AfterSave(db, c.title, c.content, c.category,
                                         c.extraction_type, TopicFromInput(a[1]),
                                         ImportanceFromInput(a[2]), final_tags, today),
                               Tail(cands), Tail(answers), today) :
                       final_tags \in FinalTags(c.context, c.content, << >>)}

\* the exchanges of the chat in the order they are made: what the user typed
\* and what the model answered
Exchanges == <<
    <<<<"u","s","e"," ","J","s","o","n">>,
      sFence \o <<"\n","x"," ","="," ","1","\n">> \o sFence>>,
    <<<<"t","o","d","o",":"," ","f","i","x"," ","i","t","."," ","o","k">>,
      <<"i","m","p","o","r","t"," ","o","s">>>>,
    <<<<"h","i">>, <<"o","k">>>> >>

\* the answers to the prompts of extract_custom
CustomCategories == {<< >>, <<"m","y"," ","I","d","e","a","s">>}
CustomFilters == {<< >>, <<"J","S","O","N">>, <<"z","z","z">>}

sCancel == <<"c","a","n","c","e","l">>
sAll == <<"a","l","l">>

\* the answers to `Select ... (1-n) or 'all' or 'cancel'`
SelectionAnswers == {
    <<"C","a","n","c","e","l"," ">>, <<"A","l","l">>,
    <<"1">>, <<"2">>, <<"0">>, <<"9">>, <<"-","1">>, <<"a","b","c">>,
    <<SuperscriptTwo>> }

\* topic and importance typed for a candidate
MetadataAnswers == {<<<< >>, << >>>>, <<sPython, <<"9">>>>}

\* xs[-n:]: the last n elements for n > 0, xs without its first -n elements
\* for n < 0, and all of xs for n = 0, because -0 is 0
SliceFromMinus(xs, n) ==
    IF n > 0 THEN SubSeq(xs, Max(Len(xs) - n, 0) + 1, Len(xs))
    ELSE SubSeq(xs, Min(0 - n, Len(xs)) + 1, Len(xs))

\* `if len(chat_history) > max_history: chat_history = chat_history[-max_history:]`
KeepRecent(history, limit) ==
    IF Len(history) > limit THEN SliceFromMinus(history, limit) ELSE history

\* a chat that writes over the newest row of conversations
Chat_Rewrites ==
    /\ pc = "main"
    /\ Len(conversations) < MaxConversations
    /\ LET e == Exchanges[(Len(conversations) % Len(Exchanges)) + 1]
           row == ConversationRow(Max(Len(conversations), 1), e[2], e[1], now)
       IN  /\ conversations' = IF conversations = << >> THEN <<row>>
                               ELSE [conversations EXCEPT ![Len(conversations)] = row]
           /\ chat_history' = KeepRecent(
                  Append(chat_history, [user |-> e[1], assistant |-> e[2]]), max_history)
    /\ last' = "chat"
    /\ reported' = "none"
    /\ streak' = 0
    /\ importance_in' = << >>
    /\ NoSearch
    /\ UNCHANGED <<now, extracted_info, metadata_index, ei_seq, mi_seq,
                   system_knowledge, pc, candidates, broken, max_history>>

\* chat with an answer of status 200: save_conversation, then the entry of
\* chat_history and its pruning
Chat ==
    /\ pc = "main"
    /\ Len(conversations) < MaxConversations
    /\ LET e == Exchanges[(Len(conversations) % Len(Exchanges)) + 1]
       IN  /\ conversations' = Append(conversations,
                  ConversationRow(Len(conversations) + 1, e[1], e[2], now))
           /\ chat_history' = KeepRecent(
                  Append(chat_history, [user |-> e[1], assistant |-> e[2]]), max_history)
    /\ last' = "chat"
    /\ reported' = "none"
    /\ streak' = 0
    /\ importance_in' = << >>
    /\ NoSearch
    /\ UNCHANGED <<now, extracted_info, metadata_index, ei_seq, mi_seq,
                   system_knowledge, pc, candidates, broken, max_history>>

\* chat with an answer of another status, or with requests.post raising: the
\* "Error: ..." text is returned before anything is stored
ChatFails ==
    /\ pc = "main"
    /\ \E failure \in {"status", "exception"} : reported' = failure
    /\ last' = "chat"
    /\ streak' = 0
    /\ importance_in' = << >>
    /\ NoSearch
    /\ UNCHANGED <<now, extracted_info, metadata_index, ei_seq, mi_seq,
                   system_knowledge, pc, candidates, broken, max_history,
                   conversations, chat_history>>

\* an extraction flow up to its selection prompt: the candidates are listed,
\* or there are none and the flow returns
ToSelection(flow, cands) ==
    /\ candidates' = cands
    /\ pc' = IF cands = << >> THEN "main" ELSE "select"
    /\ reported' = IF conversations = << >> THEN "no_conversations"
                   ELSE IF cands = << >> THEN "nothing_found" ELSE "listed"
    /\ last' = flow

\* /extract, choice 1: extract_code_snippets up to its selection prompt
ExtractCodeSnippets ==
    /\ pc = "main"
    /\ \E history \in get_conversation_history(conversations, 20) :
          ToSelection("extract_code_snippets", code_snippets(history))
    /\ streak' = 0
    /\ importance_in' = << >>
    /\ NoSearch
    /\ UNCHANGED <<now, extracted_info, metadata_index, ei_seq, mi_seq,
                   system_knowledge, conversations, broken, chat_history,
                   max_history>>

\* /extract, choice 2: extract_action_items up to its selection prompt
ExtractActionItems ==
    /\ pc = "main"
    /\ \E history \in get_conversation_history(conversations, 20) :
          ToSelection("extract_action_items", action_items(history))
    /\ streak' = 0
    /\ importance_in' = << >>
    /\ NoSearch
    /\ UNCHANGED <<now, extracted_info, metadata_index, ei_seq, mi_seq,
                   system_knowledge, conversations, broken, chat_history,
                   max_history>>

\* /extract, choice 3: extract_custom up to its selection prompt
ExtractCustom ==
    /\ pc = "main"
    /\ \E history \in get_conversation_history(conversations, 20),
          category_in \in CustomCategories, search_in \in CustomFilters :
          LET category == Strip(category_in)
              search_text == Strip(search_in)
              matching == matching_conversations(history, search_text)
          IN  IF conversations = << >>
              THEN /\ ToSelection("extract_custom", << >>)
                   /\ crit' = EmptyCrit
                   /\ query' = << >>
              ELSE IF category = << >>
              THEN /\ candidates' = << >>
                   /\ pc' = "main"
                   /\ reported' = "no_input"
                   /\ last' = "extract_custom"
                   /\ crit' = [EmptyCrit EXCEPT !.kind = "custom"]
                   /\ query' = << >>
              ELSE /\ crit' = [EmptyCrit EXCEPT !.kind = "custom",
                                                !.category = category]
                   /\ query' = search_text
                   /\ IF matching # << >> /\ ListingRaises(matching)
                      THEN /\ candidates' = << >>
                           /\ pc' = "crashed"
                           /\ reported' = "traceback"
                           /\ last' = "extract_custom"
                      ELSE ToSelection("extract_custom",
                                       CustomCandidates(matching, category))
    /\ streak' = 0
    /\ importance_in' = << >>
    /\ rebuilt' = FALSE
    /\ entry' = NoEntry
    /\ results' = << >>
    /\ queried' = FALSE
    /\ result' = NotCalled
    /\ UNCHANGED <<now, extracted_info, metadata_index, ei_seq, mi_seq,
                   system_knowledge, conversations, broken, chat_history,
                   max_history>>

\* the selection loop leaves the tables as they are
SelectionKeeps(message, next_pc) ==
    /\ last' = last
    /\ reported' = message
    /\ pc' = next_pc
    /\ candidates' = IF next_pc = "select" THEN candidates ELSE << >>
    /\ importance_in' = << >>
    /\ UNCHANGED <<extracted_info, metadata_index, ei_seq, mi_seq>>

\* the selection loop saves cands, one collect_metadata_and_save each
SelectionSaves(message, cands) ==
    /\ Len(extracted_info) + Len(cands) <= MaxExtractRows
    /\ mi_seq + Len(cands) <= MaxSeq
    /\ \E answers \in [1..Len(cands) -> MetadataAnswers] :
          /\ \E db \in CollectAll(Database, cands, answers, now) :
                /\ extracted_info' = db.extracted_info
                /\ ei_seq' = db.ei_seq
                /\ metadata_index' = db.metadata_index
                /\ mi_seq' = db.mi_seq
          /\ importance_in' = answers[Len(cands)][2]
    /\ last' = last
    /\ reported' = message
    /\ pc' = "main"
    /\ candidates' = << >>

\* one answer at the selection prompt of extract_code_snippets,
\* extract_action_items or extract_custom
SelectionAnswer ==
    /\ pc = "select"
    /\ \E typed \in SelectionAnswers :
          LET choice == Strip(typed)
          IN  /\ query' = choice
              /\ IF Lower(choice) = sCancel
                 THEN SelectionKeeps("cancelled", "main")
                 ELSE IF Lower(choice) = sAll
                 THEN SelectionSaves("saved_all", candidates)
                 ELSE IF IsDigitStr(choice)
                 THEN IF ~IntOk(choice)
                      THEN SelectionKeeps("traceback", "crashed")
                      ELSE IF IntVal(choice) \in 1..Len(candidates)
                      THEN SelectionSaves("saved",
                                          <<candidates[IntVal(choice)]>>)
                      ELSE SelectionKeeps("out_of_range", "select")
                 ELSE SelectionKeeps("invalid_choice", "select")
    /\ streak' = 0
    /\ UNCHANGED <<now, system_knowledge, conversations, broken, chat_history,
                   max_history,
                   results, rebuilt, queried, crit, entry, result>>

InitExtract ==
    /\ InitSession
    /\ max_history = DefaultMaxHistory
    /\ now = [y |-> 2023, m |-> 12, d |-> 31]
    /\ conversations = << >>
    /\ extracted_info = << >>
    /\ metadata_index = << >>
    /\ ei_seq = 0
    /\ mi_seq = 0

NextExtract ==
    \/ Chat
    \/ ExtractCodeSnippets
    \/ ExtractActionItems
    \/ ExtractCustom
    \/ SelectionAnswer

SpecExtract == InitExtract /\ [][NextExtract]_vars

-----------------------------------------------------------------------------
(* The scans of extract_action_items and extract_code_snippets on one turn *)

\* the sequences of 1..n elements of S
SeqsUpTo(S, n) == UNION {[1..k -> S] : k \in 1..n}

\* sentences of a user message
ScanSentences == {
    <<"t","o","d","o",":"," ","a">>,
    <<" ","b">>,
    <<" ","T","a","s","k",":"," ","t","o","d","o",":"," ","c">>,
    <<" ","t","o","d","o",":"," ","d">> }

\* lines of an answer
ScanLines == {
    sFence,
    <<"x"," ","="," ","1">>,
    <<"i","m","p","o","r","t"," ","o","s">>,
    <<"h","i">>,
    <<" "," ","p","r","i","n","t","(","1",")">> }

\* the turns scanned: a user message of sentences with a plain answer, or a
\* plain user message with an answer of lines
ScanTurns ==
    {<<Join(ss, <<".">>), <<"o","k">>>> : ss \in SeqsUpTo(ScanSentences, MaxSentences)}
    \cup {<<<<"h","i">>, Join(ls, <<"\n">>)>> : ls \in SeqsUpTo(ScanLines, MaxLines)}

InitScan ==
    /\ InitSession
    /\ max_history = DefaultMaxHistory
    /\ now = [y |-> 2023, m |-> 12, d |-> 31]
    /\ \E turn \in ScanTurns :
          conversations = <<ConversationRow(1, turn[1], turn[2], now)>>
    /\ extracted_info = << >>
    /\ metadata_index = << >>
    /\ ei_seq = 0
    /\ mi_seq = 0

NextScan ==
    \/ ExtractActionItems
    \/ ExtractCodeSnippets

SpecScan == InitScan /\ [][NextScan]_vars

-----------------------------------------------------------------------------
(* A whole session *)

\* /quit: end_session counts the conversations of the session and updates its
\* row of table sessions
EndSession ==
    /\ pc = "main"
    /\ pc' = "ended"
    /\ last' = "end_session"
    /\ reported' = "none"
    /\ streak' = 0
    /\ importance_in' = << >>
    /\ NoSearch
    /\ UNCHANGED <<now, extracted_info, metadata_index, ei_seq, mi_seq,
                   system_knowledge, conversations, candidates, broken,
                   chat_history, max_history>>

\* a session whose configuration file sets max_history
InitChat ==
    /\ InitSession
    /\ max_history \in 0..MaxConfigured
    /\ conversations = << >>
    /\ extracted_info = << >>
    /\ metadata_index = << >>
    /\ ei_seq = 0
    /\ mi_seq = 0

\* chats that are answered and chats that fail
NextChat ==
    \/ Chat
    \/ ChatFails
    \/ SaveSystemKnowledge
    \/ EndSession

SpecChat == InitChat /\ [][NextChat]_vars

NextSession ==
    \/ Chat
    \/ ExtractCodeSnippets
    \/ SelectionAnswer
    \/ SaveSystemKnowledge
    \/ RebuildMetadataIndex
    \/ SearchMemory
    \/ SearchByTopic
    \/ SearchByImportance
    \/ SearchCancel
    \/ ResultExit
    \/ EndSession

SpecSession == InitExtract /\ [][NextSession]_vars

-----------------------------------------------------------------------------
(* A database that stops answering *)

\* what can stop answering: one table that is lost, or the whole file when it
\* is locked, removed or damaged
Losses == {{"conversations"}, {"extracted_info"}, {"metadata_index"}, Tables}

\* from now on the statements on the tables of lost raise
Lose ==
    /\ broken = {}
    /\ pc \in {"main", "search_menu", "results"}
    /\ \E lost \in Losses : broken' = lost
    /\ UNCHANGED <<now, extracted_info, metadata_index, ei_seq, mi_seq,
                   system_knowledge, pc, results, last, streak, rebuilt, queried,
                   crit, entry, importance_in, query, result, conversations,
                   candidates, reported, chat_history, max_history>>

NextUnavailable ==
    \/ Lose
    \/ RebuildMetadataIndex
    \/ SearchMemory
    \/ SearchByDate
    \/ SearchByTopic
    \/ SearchByCategory
    \/ SearchByTags
    \/ SearchByImportance
    \/ CombinedSearch
    \/ SearchCancel
    \/ QueryResultExtract
    \/ ResultExit

SpecUnavailable == InitQuery /\ [][NextUnavailable]_vars

\* the repair and search operations on any database file
NextRepair ==
    \/ RebuildMetadataIndex
    \/ SearchMemory
    \/ SearchByDate
    \/ CombinedSearch
    \/ SearchCancel
    \/ ResultExit

SpecRepair == InitAnyDatabase /\ [][NextRepair]_vars

\* the statements on every table work again: a lock is released, the disk has
\* room again
Recover ==
    /\ broken # {}
    /\ broken' = {}
    /\ UNCHANGED <<now, extracted_info, metadata_index, ei_seq, mi_seq,
                   system_knowledge, pc, results, last, streak, rebuilt, queried,
                   crit, entry, importance_in, query, result, conversations,
                   candidates, reported, chat_history, max_history>>

\* one call of save_extracted_info_with_metadata
SaveExtractedInfoWithMetadata ==
    /\ pc = "main"
    /\ ei_seq < MaxSeq
    /\ mi_seq < MaxSeq
    /\ \E flow \in Flows, topic_in \in TopicAnswers :
           SaveWithMetadata(flow.title, flow.content, flow.category,
                            flow.extraction_type, TopicFromInput(topic_in), 3, sJson)
    /\ last' = "save_extracted_info_with_metadata"
    /\ streak' = 0
    /\ importance_in' = << >>
    /\ NoSearch
    /\ UNCHANGED <<now, system_knowledge, pc>>
    /\ UNCHANGED <<conversations, candidates, broken, chat_history, max_history>>
    /\ reported' = IF Fails(SearchTables) THEN "save_error" ELSE "saved"

\* saves that succeed and saves that fail at either INSERT
NextSave ==
    \/ Lose
    \/ Recover
    \/ SaveExtractedInfoWithMetadata

SpecSave == InitIndexed /\ [][NextSave]_vars

\* rebuilds that complete and rebuilds that fail half way, on any database file
NextInterrupt ==
    \/ RebuildMetadataIndex
    \/ RebuildInterrupted
    \/ SearchMemory
    \/ SearchCancel

SpecInterrupt == InitAnyDatabase /\ [][NextInterrupt]_vars

-----------------------------------------------------------------------------
(* Properties of the rebuild and of the search entry *)

JustRebuilt == last = "rebuild_metadata_index"

\* C1: after rebuild_metadata_index returns, from any database state,
\* metadata_index has as many rows as extracted_info.
C1_CountsEqualAfterRebuild ==
    JustRebuilt => Len(metadata_index) = Len(extracted_info)

\* a metadata_index row without its AUTOINCREMENT id
WithoutId(m) ==
    [extracted_info_id |-> m.extracted_info_id, date_key |-> m.date_key,
     weekday |-> m.weekday, month |-> m.month, year |-> m.year,
     topic_key |-> m.topic_key, category_key |-> m.category_key,
     tags_key |-> m.tags_key]

WithoutIds(mi) == [j \in 1..Len(mi) |-> WithoutId(mi[j])]

\* a rebuild that directly follows a rebuild
RebuildAgain == JustRebuilt /\ last' = "rebuild_metadata_index"

\* C2: a second rebuild in a row leaves metadata_index with exactly the same
\* rows in every column, the AUTOINCREMENT id included.
C2_SecondRebuildSameRows ==
    [][RebuildAgain => metadata_index' = metadata_index]_vars

\* C2, amended: a second rebuild in a row leaves the same rows in the same
\* order in every column but id; when there are rows, each gets a new id,
\* larger than every id the first rebuild gave.
C2_SecondRebuildSameRowsButIds ==
    [][RebuildAgain =>
          /\ WithoutIds(metadata_index') = WithoutIds(metadata_index)
          /\ extracted_info # << >> =>
                \A j, k \in 1..Len(metadata_index) :
                    metadata_index'[j].id > metadata_index[k].id]_vars

C2_Witness == streak = 2 /\ Len(metadata_index) = 2 /\ metadata_index[1].id > 2

\* C3: after a rebuild every extracted_info row has exactly one index row
\* and no index row refers to an id that extracted_info lacks.
C3_OneIndexRowEach ==
    JustRebuilt =>
        /\ \A i \in 1..Len(extracted_info) :
              Cardinality({j \in 1..Len(metadata_index) :
                  metadata_index[j].extracted_info_id = extracted_info[i].id}) = 1
        /\ \A j \in 1..Len(metadata_index) :
              \E i \in 1..Len(extracted_info) :
                  extracted_info[i].id = metadata_index[j].extracted_info_id

InSearch == last \in {"search_memory", "search_by_date", "combined_search"}

\* C4: when search_memory is entered with extracted_info non-empty and the
\* two counts different, the rebuild has run before the menu is shown and
\* before any query is executed, and the search goes on to its menu.
C4_DriftRebuildsBeforeSearch ==
    (InSearch /\ entry.extracted_count > 0
              /\ entry.metadata_count # entry.extracted_count) =>
        /\ rebuilt
        /\ last = "search_memory" => pc = "search_menu"

\* C10: when a date is given and parse_date_query returns None, search_by_date
\* and combined_search execute no query and produce no results, whatever the
\* other criteria.
C10_NoneDateAbortsSearch ==
    (last \in {"search_by_date", "combined_search"} /\ crit.date_query # << >>
        /\ result = RetNone) =>
        (~queried /\ results = << >>)

-----------------------------------------------------------------------------
(* Properties of the saves *)

LastRow(table) == table[Len(table)]

\* max(1, min(5, i)) spelled out
Clamped(i) == IF i < 1 THEN 1 ELSE IF i > 5 THEN 5 ELSE i

\* C5: every extracted_info and system_knowledge row has importance_level in
\* 1..5; an integer answer i is stored as max(1, min(5, i)), and a blank or
\* non-numeric answer, an extraction from a search result and a knowledge
\* save store 3.
C5_ImportanceInRange ==
    /\ \A i \in 1..Len(extracted_info) : extracted_info[i].importance_level \in 1..5
    /\ \A i \in 1..Len(system_knowledge) : system_knowledge[i].importance_level \in 1..5
    /\ last = "collect_metadata_and_save" =>
          LastRow(extracted_info).importance_level =
              IF IntOk(importance_in) THEN Clamped(IntVal(importance_in)) ELSE 3
    /\ last = "extract" => LastRow(extracted_info).importance_level = 3
    /\ last = "save_system_knowledge" => LastRow(system_knowledge).importance_level = 3

C5_Witness ==
    /\ last = "collect_metadata_and_save"
    /\ importance_in = <<"-", "2">>
    /\ LastRow(extracted_info).importance_level = 1
    /\ system_knowledge # << >>

-----------------------------------------------------------------------------
(* Properties of the queries *)

\* how many times row occurs in list
Count(list, row) == Cardinality({k \in 1..Len(list) : list[k] = row})

\* list holds the selected columns of exactly the rows of ei at the
\* positions in S, each once, in some order
HoldsEachOnce(list, ei, S) ==
    /\ Len(list) = Cardinality(S)
    /\ \A i \in S :
          Count(list, Selected(ei[i])) =
              Cardinality({j \in S : Selected(ei[j]) = Selected(ei[i])})

\* an index row satisfies every criterion supplied: date exact, topic
\* substring, category exact, one of the tags a substring
SatisfiesAll(m, c, parsed) ==
    /\ c.date_query # << >> => parsed.kind = "str" /\ m.date_key = parsed.val
    /\ c.topic # << >> => Contains(m.topic_key, Lower(c.topic))
    /\ c.category # << >> => m.category_key = Lower(c.category)
    /\ c.tags # << >> =>
          \E i \in 1..Len(TagList(c.tags)) : Contains(m.tags_key, TagList(c.tags)[i])

\* the positions of the records whose index row satisfies the criteria
Satisfying(ei, mi, c, parsed) ==
    {i \in 1..Len(ei) :
        \E j \in 1..Len(mi) :
            mi[j].extracted_info_id = ei[i].id /\ SatisfiesAll(mi[j], c, parsed)}

\* C11: a combined search with at least one criterion (and a date, if given,
\* that parse_date_query resolves) returns exactly the records whose index
\* row satisfies every supplied criterion, each once: topic_key contains
\* lower(T), category_key equals the lower-cased category, tags_key contains
\* one of the trimmed lower-cased tags, date_key equals the date.
C11_CombinedReturnsExactlyMatching ==
    (/\ last = "combined_search"
     /\ ~NoCriteria(crit.date_query, crit.topic, crit.category, crit.tags)
     /\ result.kind \in {"uncalled", "str"}) =>
        HoldsEachOnce(results, extracted_info,
                      Satisfying(extracted_info, metadata_index, crit, result))

\* C12: the combined search takes an importance threshold L together with its
\* other criteria and returns only records with importance_level >= L.
\* combined_search asks for date, topic, category and tags only, so its
\* result would have to be right for whichever L in 1..5 is meant.
C12_CombinedHonoursImportance ==
    (last = "combined_search" /\ queried) =>
        \A L \in 1..5 :
            \A k \in 1..Len(results) : results[k].importance_level >= L

\* C13: search_database_by_importance(L), L in 1..5, returns exactly the
\* extracted_info rows with importance_level >= L, each once.
C13_ImportanceIsFloor ==
    (last = "search_by_importance" /\ queried) =>
        /\ crit.importance \in 1..5
        /\ HoldsEachOnce(results, extracted_info,
               {i \in 1..Len(extracted_info) :
                   extracted_info[i].importance_level >= crit.importance})

C13_Witness ==
    /\ last = "search_by_importance"
    /\ crit.importance = 3
    /\ Len(results) = 2
    /\ results[1].importance_level = 4
    /\ results[2].importance_level = 3

MemorySearches ==
    {"search_by_date", "search_by_topic", "search_by_category", "search_by_tags",
     "search_by_importance", "combined_search"}

\* the ids of the extracted_info rows a result row can come from
SourceIds(row) ==
    {extracted_info[i].id : i \in {j \in 1..Len(extracted_info) :
                                      Selected(extracted_info[j]) = row}}

\* C14: in the result list of every memory search, for rows a before b,
\* importance(a) > importance(b), or they are equal and created_at(a) >=
\* created_at(b); and of two rows equal in both, the one inserted later
\* comes first.
C14_OrderedAndTiesByRecency ==
    (last \in MemorySearches /\ queried) =>
        \A a, b \in 1..Len(results) :
            a < b =>
                /\ \/ results[a].importance_level > results[b].importance_level
                   \/ /\ results[a].importance_level = results[b].importance_level
                      /\ ~ValueLess(results[a].created_at, results[b].created_at)
                /\ (/\ results[a].importance_level = results[b].importance_level
                    /\ results[a].created_at = results[b].created_at
                    /\ results[a] # results[b]) =>
                       \A x \in SourceIds(results[a]), y \in SourceIds(results[b]) : x > y

\* C15: a combined search whose four answers are all empty after trimming is
\* rejected by combined_search itself: it reports that no criteria were
\* given, executes no query, shows no results, and every table is unchanged.
C15_EmptyCriteriaRejected ==
    [][(/\ last' = "combined_search"
        /\ pc = "search_menu"
        /\ crit'.date_query = << >> /\ crit'.topic = << >>
        /\ crit'.category = << >> /\ crit'.tags = << >>) =>
           /\ reported' = "no_criteria"
           /\ ~queried'
           /\ results' = << >>
           /\ pc' = "main"
           /\ UNCHANGED <<extracted_info, metadata_index, ei_seq, mi_seq,
                          system_knowledge, conversations>>]_vars

C15_Witness ==
    /\ last = "combined_search"
    /\ reported = "no_criteria"
    /\ crit.kind = "combined"
    /\ extracted_info # << >>

-----------------------------------------------------------------------------
(* Properties of the extraction flows *)

SavedText(conv) ==
    sUserColon \o conv.user_message \o sAssistantColon \o conv.assistant_response

\* the conversations whose user and assistant text holds text, in any case
Holding(text) ==
    {conversations[i] : i \in {j \in 1..Len(conversations) :
        Contains(Lower(conversations[j].user_message \o <<" ">>
                       \o conversations[j].assistant_response), Lower(text))}}

\* a step of extract_custom that has asked for the category and the search text
CustomScanned ==
    /\ pc = "main"
    /\ last' = "extract_custom"
    /\ crit'.kind = "custom"
    /\ crit'.category # << >>

\* the candidates listed by the step are the conversations of S, one each
ListedExactly(S) ==
    /\ Len(candidates') = Cardinality(S)
    /\ {candidates'[k].content : k \in 1..Len(candidates')} = {SavedText(c) : c \in S}
    /\ pc' = IF S = {} THEN "main" ELSE "select"

\* C17: extract_custom with a blank search text lists every scanned
\* conversation as a candidate of the selection prompt; with a search text it
\* lists exactly the conversations whose user and assistant text holds it,
\* whatever the case of the letters
C17_CustomFilterKeeps ==
    [][CustomScanned
       => IF query' = << >>
          THEN ListedExactly(Range(conversations))
          ELSE ListedExactly(Holding(query'))]_vars

\* the part of C17 about a search text that is given
C17_GivenFilterKeeps ==
    [][(CustomScanned /\ query' # << >>) => ListedExactly(Holding(query'))]_vars

\* extract_custom has stopped at its listing after a blank search text
C17_BlankFilterRaises ==
    /\ last = "extract_custom"
    /\ crit.kind = "custom"
    /\ crit.category # << >>
    /\ query = << >>
    /\ conversations # << >>
    /\ pc = "crashed"
    /\ reported = "traceback"
    /\ candidates = << >>

\* the answer is a number written in the decimal digits 0..9
DecimalNumber(s) == s # << >> /\ \A i \in 1..Len(s) : IsDigit(s[i])

\* an answer the selection prompt has to turn down: not "all", and either no
\* number or a number that is no position of the list
TurnedDown(choice) ==
    /\ Lower(choice) # sCancel
    /\ Lower(choice) # sAll
    /\ DecimalNumber(choice) => DigitsVal(choice) \notin 1..Len(candidates)

TablesKept == UNCHANGED <<extracted_info, metadata_index, ei_seq, mi_seq>>

\* C18: at the selection prompt of extract_code_snippets, extract_action_items
\* and extract_custom the answer "cancel" ends the flow, and an answer that is
\* no number or a number outside 1..len(candidates) asks again with the same
\* list; none of them changes extracted_info or metadata_index
C18_RejectedAnswersKeepTables ==
    [][(pc = "select")
       => /\ Lower(query') = sCancel => (TablesKept /\ pc' = "main")
          /\ TurnedDown(query')
                => (TablesKept /\ pc' = "select" /\ candidates' = candidates)]_vars

\* the part of C18 about the tables
C18_RejectedAnswersWriteNothing ==
    [][(pc = "select" /\ (Lower(query') = sCancel \/ TurnedDown(query')))
       => TablesKept]_vars

\* the part of C18 about answers made of the characters 0..9, letters and "-"
C18_AsciiAnswersAskAgain ==
    [][(pc = "select" /\ TurnedDown(query') /\ SuperscriptTwo \notin Range(query'))
       => (pc' = "select" /\ candidates' = candidates)]_vars

\* the selection prompt has stopped on an answer that str.isdigit() takes for a
\* number and int() does not
C18_DigitAnswerRaises ==
    /\ last \in {"extract_code_snippets", "extract_action_items", "extract_custom"}
    /\ query = <<SuperscriptTwo>>
    /\ pc = "crashed"
    /\ reported = "traceback"

-----------------------------------------------------------------------------
(* Properties of the actions on a result list *)

\* the k typed in `extract <k>`
TypedItem(action) == DigitsVal(SubSeq(action, Len(sExtract) + 1, Len(action)))

\* C19: `extract <k>` on a result list, k in 1..len(results), appends one row
\* to extracted_info with extraction_type "search_extraction", importance 3 and
\* the content, category, topic and tags of results[k], appends the
\* metadata_index row of that new row, and leaves every other row, the source
\* row among them, as it was
C19_ExtractCopiesKthResult ==
    [][(pc = "results" /\ last' = "extract")
       => LET k == TypedItem(query')
              new == extracted_info'[Len(extracted_info')]
              key == metadata_index'[Len(metadata_index')]
          IN  /\ k \in 1..Len(results)
              /\ Len(extracted_info') = Len(extracted_info) + 1
              /\ new.extraction_type = sSearchExtraction
              /\ new.content = results[k].content
              /\ new.category = results[k].category
              /\ new.topic = results[k].topic
              /\ new.tags = results[k].tags
              /\ new.importance_level = 3
              /\ new.id \notin {extracted_info[i].id : i \in 1..Len(extracted_info)}
              /\ Len(metadata_index') = Len(metadata_index) + 1
              /\ key.extracted_info_id = new.id
              /\ key.topic_key = Lower(new.topic)
              /\ key.category_key = Lower(new.category)
              /\ key.tags_key = Lower(new.tags)
              /\ \A i \in 1..Len(extracted_info) : extracted_info'[i] = extracted_info[i]
              /\ \A i \in 1..Len(metadata_index) : metadata_index'[i] = metadata_index[i]]_vars

\* the second result of a list of two different records has been extracted
C19_Witness ==
    /\ last = "extract"
    /\ query = sExtract \o <<"2">>
    /\ Len(results) = 2
    /\ results[1].content # results[2].content
    /\ Len(extracted_info) = 3
    /\ extracted_info[3].content = results[2].content
    /\ extracted_info[3].extraction_type = sSearchExtraction

-----------------------------------------------------------------------------
(* Properties of a database that stops answering *)

\* a step that has called an operation of the store: a search that got to its
\* query, the validation of search_memory, a rebuild, a save
StoreStep ==
    \/ pc = "search_menu" /\ queried'
    \/ last' \in {"search_memory", "rebuild_metadata_index", "extract"}

\* the tables the query of the step reads
Queried == IF last' = "search_by_importance" THEN {"extracted_info"} ELSE SearchTables

\* C20: once a statement of the database fails, no store operation lets an
\* exception out or changes a table, a search that is run returns the empty
\* list and says so, and search_memory does not get to its menu, because
\* validate_search_prerequisites returns False
C20_UnavailableStopsSearch ==
    [][(broken # {})
       => /\ StoreStep => pc' # "crashed"
          /\ Fails(SearchTables) => UNCHANGED <<extracted_info, metadata_index, ei_seq, mi_seq>>
          /\ (Fails(Queried) /\ pc = "search_menu" /\ queried') => (results' = << >> /\ reported' = "search_error")
          /\ (pc = "main" /\ last' = "search_memory") => pc' = "main"]_vars

\* the part of C20 about exceptions and results
C20_FailuresAreCaught ==
    [][(Fails(SearchTables))
       => /\ StoreStep => pc' # "crashed"
          /\ UNCHANGED <<extracted_info, metadata_index, ei_seq, mi_seq>>
          /\ (Fails(Queried) /\ pc = "search_menu" /\ queried') => (results' = << >> /\ reported' = "search_error")
          /\ (pc = "main" /\ last' = "search_memory")
                => (pc' = "main" /\ reported' = "validation_error")]_vars

\* search_memory has shown its menu although validate_database_connection
\* reports a failure
C20_MenuOnFailedConnection ==
    /\ ~validate_database_connection[1]
    /\ last = "search_memory"
    /\ pc = "search_menu"

-----------------------------------------------------------------------------
(* Properties of a whole session *)

\* C21: whatever the session does (chat, extraction, search, rebuild, saving
\* knowledge, ending), the rows of conversations stay as they were inserted;
\* the table changes only by a chat that appends one row
C21_ConversationsAppendOnly ==
    [][\/ conversations' = conversations
       \/ /\ last' = "chat"
          /\ Len(conversations') = Len(conversations) + 1
          /\ SubSeq(conversations', 1, Len(conversations)) = conversations]_vars

\* a second exchange has been chatted, and the session has since extracted,
\* searched and rebuilt
C21_Witness ==
    /\ Len(conversations) = 2
    /\ conversations[1].id = 1
    /\ conversations[2].id = 2
    /\ extracted_info # << >>
    /\ last = "rebuild_metadata_index"
    /\ system_knowledge # << >>

-----------------------------------------------------------------------------
(* Properties of the index rows *)

\* the extracted_info row an index row points to
InfoOf(key) ==
    CHOOSE item \in Range(extracted_info) : item.id = key.extracted_info_id

\* C22: every row of metadata_index, written by a save or by a rebuild, holds
\* weekday and month in lower case, and in topic_key, category_key and tags_key
\* the lower-cased topic, category and tags of its extracted_info row
C22_IndexKeysLowerCase ==
    \A i \in 1..Len(metadata_index) :
        LET key == metadata_index[i]
        IN  /\ key.weekday = Lower(key.weekday)
            /\ key.month = Lower(key.month)
            /\ key.topic_key = Lower(InfoOf(key).topic)
            /\ key.category_key = Lower(InfoOf(key).category)
            /\ key.tags_key = Lower(InfoOf(key).tags)

\* the part of C22 about topic_key, category_key and tags_key
C22_TextKeysLowerCase ==
    \A i \in 1..Len(metadata_index) :
        LET key == metadata_index[i]
        IN  /\ key.topic_key = Lower(InfoOf(key).topic)
            /\ key.category_key = Lower(InfoOf(key).category)
            /\ key.tags_key = Lower(InfoOf(key).tags)

\* a save has written an index row whose weekday begins with a capital
C22_SavedWeekdayCapital ==
    /\ last \in {"collect_metadata_and_save", "extract"}
    /\ metadata_index # << >>
    /\ metadata_index[Len(metadata_index)].weekday
          # Lower(metadata_index[Len(metadata_index)].weekday)

-----------------------------------------------------------------------------
(* Properties of the scans *)

\* the user and assistant text of the one turn scanned
TurnText == conversations[1].user_message \o <<" ">> \o conversations[1].assistant_response

\* the sentences of the turn, split on ".", that hold one of the phrases
MatchingSentences ==
    LET sentences == SplitOn(TurnText, ".")
    IN  {i \in 1..Len(sentences) :
            \E p \in 1..Len(action_patterns) :
                Contains(Lower(sentences[i]), action_patterns[p])}

\* C23: the action-item scan lists one candidate for each sentence of the turn
\* that holds at least one of the phrases: one for a sentence that holds
\* several phrases, and one for every such sentence
C23_OneCandidatePerSentence ==
    (last = "extract_action_items" /\ Len(conversations) = 1)
    => /\ Len(candidates) = Cardinality(MatchingSentences)
       /\ {candidates[k].content : k \in 1..Len(candidates)}
             = {Strip(SplitOn(TurnText, ".")[i]) : i \in MatchingSentences}

\* the part of C23 that holds: the candidates are sentences of the turn that
\* hold a phrase, and there is one if such a sentence exists
C23_CandidatesAreMatchingSentences ==
    (last = "extract_action_items" /\ Len(conversations) = 1)
    => /\ {candidates[k].content : k \in 1..Len(candidates)}
             \subseteq {Strip(SplitOn(TurnText, ".")[i]) : i \in MatchingSentences}
       /\ (MatchingSentences # {}) = (candidates # << >>)

\* one sentence holding two phrases has given two candidates
C23_TwoCandidatesOneSentence ==
    /\ last = "extract_action_items"
    /\ Cardinality(MatchingSentences) = 1
    /\ Len(candidates) = 2
    /\ candidates[1].content = candidates[2].content

\* two sentences holding the same phrase have given one candidate
C23_SecondSentenceDropped ==
    /\ last = "extract_action_items"
    /\ Cardinality(MatchingSentences) = 2
    /\ Len(candidates) = 1

\* the lines of the answer of the one turn scanned
AnswerLines == SplitOn(conversations[1].assistant_response, "\n")

\* the positions of the marker lines
Markers == {i \in 1..Len(AnswerLines) : Contains(AnswerLines[i], sFence)}

MarkersBefore(i) == Cardinality({m \in Markers : m < i})

\* line i lies between an opening marker line and the marker line that closes it
BetweenPairedMarkers(i) ==
    /\ i \notin Markers
    /\ MarkersBefore(i) % 2 = 1
    /\ \E m \in Markers : m > i

\* line i lies outside the fences and starts with one of the prefixes
PrefixedOutside(i) ==
    /\ i \notin Markers
    /\ ~BetweenPairedMarkers(i)
    /\ \E p \in 1..Len(code_prefixes) : StartsWith(Strip(AnswerLines[i]), code_prefixes[p])

\* the lines at the positions of S, in order
RECURSIVE LinesAt(_, _)
LinesAt(S, from) ==
    IF from > Len(AnswerLines) THEN << >>
    ELSE (IF from \in S THEN <<AnswerLines[from]>> ELSE << >>) \o LinesAt(S, from + 1)

Accumulated ==
    LinesAt({i \in 1..Len(AnswerLines) : BetweenPairedMarkers(i) \/ PrefixedOutside(i)}, 1)

\* C24: the code-snippet scan lists a candidate for the turn exactly if the
\* turn has a line between paired marker lines or a line outside the fences
\* that starts with one of the prefixes; the candidate holds exactly these
\* lines, in order, and no marker line
C24_AccumulatedLines ==
    (last = "extract_code_snippets" /\ Len(conversations) = 1)
    => /\ (candidates # << >>) = (Accumulated # << >>)
       /\ candidates # << >> =>
             (Len(candidates) = 1 /\ candidates[1].content = Join(Accumulated, <<"\n">>))

\* the part of C24 about answers whose marker lines are all paired
C24_PairedFences ==
    (last = "extract_code_snippets" /\ Len(conversations) = 1 /\ Cardinality(Markers) % 2 = 0)
    => /\ (candidates # << >>) = (Accumulated # << >>)
       /\ candidates # << >> =>
             (Len(candidates) = 1 /\ candidates[1].content = Join(Accumulated, <<"\n">>))

\* the part of C24 about marker lines
C24_NoMarkerLine ==
    last = "extract_code_snippets"
    => \A k \in 1..Len(candidates) : ~Contains(candidates[k].content, sFence)

\* line i follows an opening marker line, closed later or not
InsideFence(i) == i \notin Markers /\ MarkersBefore(i) % 2 = 1

\* the lines inside a fence and the lines outside that start with a prefix
Toggled ==
    LinesAt({i \in 1..Len(AnswerLines) :
                \/ InsideFence(i)
                \/ /\ i \notin Markers
                   /\ \E p \in 1..Len(code_prefixes) :
                         StartsWith(Strip(AnswerLines[i]), code_prefixes[p])}, 1)

\* C24, amended: the code-snippet scan lists a candidate for the turn exactly
\* if the turn has a line after an opening marker line (up to the marker line
\* that closes it, or to the end of the answer if none does) or a line outside
\* the fences that starts with one of the prefixes; the candidate holds exactly
\* these lines, in order, and no marker line
C24_ToggledLines ==
    (last = "extract_code_snippets" /\ Len(conversations) = 1)
    => /\ (candidates # << >>) = (Toggled # << >>)
       /\ candidates # << >> =>
             /\ Len(candidates) = 1
             /\ candidates[1].content = Join(Toggled, <<"\n">>)
             /\ ~Contains(candidates[1].content, sFence)

\* a candidate made of the one line between two marker lines
C24_Witness ==
    /\ last = "extract_code_snippets"
    /\ Markers = {1, 3}
    /\ Len(AnswerLines) = 3
    /\ Len(candidates) = 1
    /\ candidates[1].content = <<"x"," ","="," ","1">>

\* a line after a marker line that nothing closes has been listed
C24_UnclosedFenceListed ==
    /\ last = "extract_code_snippets"
    /\ Cardinality(Markers) = 1
    /\ Accumulated = << >>
    /\ candidates # << >>


\* C25 (as stated): a rebuild that fails after some but not all rows leaves
\* metadata_index with the rows processed so far and none of the old ones.
C25_InterruptedRebuildPartial ==
    [][last' = "rebuild_interrupted" =>
          \E done \in 1..(Len(extracted_info) - 1) :
              metadata_index' = RebuildInserts(SubSeq(extracted_info, 1, done), mi_seq)]_vars

\* C25 (amended): a rebuild that fails after some but not all rows leaves
\* metadata_index and its id sequence as they were before the call, and a
\* complete rebuild after it leaves one index row per extracted_info row.
C25_InterruptedRebuildRollsBack ==
    [][/\ last' = "rebuild_interrupted" =>
              /\ metadata_index' = metadata_index
              /\ mi_seq' = mi_seq
       /\ (last = "rebuild_interrupted" /\ last' = "rebuild_metadata_index") =>
              IndexedOnce(extracted_info', metadata_index')]_vars

\* a failed rebuild over two rows has left the single old index row, and the
\* id sequence, untouched
C25_Witness ==
    /\ last = "rebuild_interrupted"
    /\ Len(extracted_info) = 2
    /\ Len(metadata_index) = 1
    /\ metadata_index[1].id = 1
    /\ mi_seq = 1


\* the rules of the date resolver, numbered in the order the specification
\* lists them: 1 yesterday, 2 today, 3 this week, 4 last <weekday>, 5 ISO date
DateRules == 1..5

\* rule k recognises the phrase
RuleMatches(k, phrase) ==
    CASE k = 1 -> Contains(Lower(phrase), sYesterday)
      [] k = 2 -> Contains(Lower(phrase), sToday)
      [] k = 3 -> Contains(Lower(phrase), sThisWeek)
      [] k = 4 -> /\ Contains(Lower(phrase), sLast)
                  /\ \E i \in 1..7 : Contains(Lower(phrase), weekday_map[i])
      [] k = 5 -> StrptimeYmdOk(phrase)

\* what rule k alone makes of the phrase on the given day
RuleResult(k, phrase, today) ==
    CASE k = 1 -> ReplaceDayYmd(today, today.d - 1)
      [] k = 2 -> RetStr(StrftimeYmd(today))
      [] k = 3 -> ReplaceDayYmd(today, today.d - Weekday(today))
      [] k = 4 -> ReplaceDayYmd(today,
                      today.d - DaysSince(today, FirstWeekdayIn(Lower(phrase)) - 1))
      [] k = 5 -> RetStr(phrase)

MatchingRules(phrase) == {k \in DateRules : RuleMatches(k, phrase)}

FirstRule(phrase) == CHOOSE k \in MatchingRules(phrase) : \A j \in MatchingRules(phrase) : k <= j

\* C26: the outcome of parse_date_query is that of the first rule, in the
\* order yesterday, today, this week, last <weekday>, ISO date, that matches
\* the phrase with letter case ignored; the ISO rule decides only when none of
\* the four before it matches, and a phrase no rule matches gives None.
C26_FirstMatchingRuleWins ==
    last = "parse_date_query" =>
        /\ result = IF MatchingRules(query) = {} THEN RetNone
                    ELSE RuleResult(FirstRule(query), query, now)
        /\ result = parse_date_query(Lower(query), now)
        /\ (result = RetStr(query) /\ StrptimeYmdOk(query)) =>
               MatchingRules(query) = {5}

\* a phrase holding both 'yesterday' and 'today' has been resolved to the day
\* before, not to the day itself
C26_Witness ==
    /\ last = "parse_date_query"
    /\ {1, 2} \subseteq MatchingRules(query)
    /\ result.kind = "str"
    /\ result = ReplaceDayYmd(now, now.d - 1)
    /\ result # RetStr(StrftimeYmd(now))

\* a phrase written with capitals has been resolved by the weekday rule
C26_CapitalsWitness ==
    /\ last = "parse_date_query"
    /\ query # Lower(query)
    /\ MatchingRules(query) = {4}
    /\ result # RetNone

\* a step that is one call of save_extracted_info_with_metadata
SaveStep == broken' = broken /\ last' = "save_extracted_info_with_metadata"

\* C27: from a database with one index row per extracted_info row, every
\* sequence of save_extracted_info_with_metadata calls keeps one index row
\* per extracted_info row: a call that succeeds adds one extracted_info row
\* and the index row that refers to it, a call that fails at the first or at
\* the second INSERT adds neither.
C27_SavesKeepIndexInStep ==
    [][/\ IndexedOnce(extracted_info', metadata_index')
       /\ (SaveStep /\ ~Fails(SearchTables)) =>
              /\ Len(extracted_info') = Len(extracted_info) + 1
              /\ Len(metadata_index') = Len(metadata_index) + 1
              /\ SubSeq(extracted_info', 1, Len(extracted_info)) = extracted_info
              /\ SubSeq(metadata_index', 1, Len(metadata_index)) = metadata_index
              /\ metadata_index'[Len(metadata_index')].extracted_info_id =
                     extracted_info'[Len(extracted_info')].id
       /\ (SaveStep /\ Fails(SearchTables)) =>
              /\ extracted_info' = extracted_info
              /\ metadata_index' = metadata_index]_vars

\* a save has failed at its second INSERT after a save that succeeded
C27_Witness ==
    /\ last = "save_extracted_info_with_metadata"
    /\ reported = "save_error"
    /\ broken = {"metadata_index"}
    /\ Len(extracted_info) = MaxInitRows + 1
    /\ Len(metadata_index) = MaxInitRows + 1

\* the columns of an index row the searches and the listings read
IndexKeys(row) ==
    [date_key |-> row.date_key, weekday |-> row.weekday, month |-> row.month,
     year |-> row.year, topic_key |-> row.topic_key,
     category_key |-> row.category_key, tags_key |-> row.tags_key]

\* the index rows of mi that refer to the extracted_info row with this id
IndexRowsOf(mi, ref) == {mi[j] : j \in {k \in 1..Len(mi) : mi[k].extracted_info_id = ref}}

\* C28: a rebuild that follows a save leaves, for every extracted_info row, an
\* index row with the same date_key, weekday, month, year, topic_key,
\* category_key and tags_key as the index row the save wrote.
C28_RebuildReproducesSavedKeys ==
    [][(/\ last = "collect_metadata_and_save"
        /\ last' = "rebuild_metadata_index"
        /\ reported' = "rebuilt") =>
           \A i \in 1..Len(extracted_info) :
               {IndexKeys(r) : r \in IndexRowsOf(metadata_index', extracted_info[i].id)} =
               {IndexKeys(r) : r \in IndexRowsOf(metadata_index, extracted_info[i].id)}]_vars

\* C28 (the part the searches use): after such a rebuild date_key, year,
\* topic_key, category_key and tags_key are those the save wrote, when the
\* row's created_at falls on the local day of the save.
C28_RebuildReproducesSearchKeys ==
    [][(/\ last = "collect_metadata_and_save"
        /\ last' = "rebuild_metadata_index"
        /\ reported' = "rebuilt") =>
           \A i \in 1..Len(extracted_info) :
               {[IndexKeys(r) EXCEPT !.weekday = << >>, !.month = << >>] :
                    r \in IndexRowsOf(metadata_index', extracted_info[i].id)} =
               {[IndexKeys(r) EXCEPT !.weekday = << >>, !.month = << >>] :
                    r \in IndexRowsOf(metadata_index, extracted_info[i].id)}]_vars

\* a rebuild after a save has replaced the weekday the save wrote by its
\* lower-case form
C28_RebuiltWeekdayLowerCase ==
    /\ last = "rebuild_metadata_index"
    /\ reported = "rebuilt"
    /\ Len(metadata_index) = 1
    /\ metadata_index[1].weekday = Lower(StrftimeA(now))
    /\ metadata_index[1].weekday # StrftimeA(now)

\* how often the selected columns of a record occur in a result list
TimesListed(list, record) == Cardinality({k \in 1..Len(list) : list[k] = record})

\* the rows of extracted_info at or above a level whose selected columns are
\* those of the record
RowsLike(ei, level, record) == {i \in AtLeast(ei, level) : Selected(ei[i]) = record}

\* a record of a result list belongs to an extracted_info row that has an
\* index row
HasIndexRow(ei, mi, record) ==
    \E i \in 1..Len(ei) : Selected(ei[i]) = record /\ IndexRowsOf(mi, ei[i].id) # {}

\* C29: whatever metadata_index holds (nothing, orphaned rows, several rows for
\* one record), an importance search lists each extracted_info row at or above
\* the level exactly once, while a date, topic, category, tag or combined
\* search lists only records that have an index row.
C29_ImportanceIgnoresIndex ==
    [][(pc = "search_menu" /\ queried') =>
          /\ last' = "search_by_importance" =>
                 /\ Len(results') = Cardinality(AtLeast(extracted_info, crit'.importance))
                 /\ \A k \in 1..Len(results') :
                        TimesListed(results', results'[k]) =
                        Cardinality(RowsLike(extracted_info, crit'.importance, results'[k]))
          /\ last' # "search_by_importance" =>
                 \A k \in 1..Len(results') :
                     HasIndexRow(extracted_info, metadata_index, results'[k])]_vars

\* an importance search has listed a record that has no index row, on a
\* database whose index holds other rows
C29_Witness ==
    /\ last = "search_by_importance"
    /\ queried
    /\ metadata_index # << >>
    /\ \E k \in 1..Len(results) : ~HasIndexRow(extracted_info, metadata_index, results[k])

\* an importance search has listed once a record that has two index rows
C29_DuplicateWitness ==
    /\ last = "search_by_importance"
    /\ queried
    /\ Len(results) = 1
    /\ Len(extracted_info) = 1
    /\ Cardinality(IndexRowsOf(metadata_index, extracted_info[1].id)) = 2

\* another search has listed records on a database with orphaned index rows
C29_JoinedWitness ==
    /\ last \in {"search_by_date", "search_by_topic", "search_by_category", "search_by_tags"}
    /\ queried
    /\ results # << >>
    /\ Len(results) < Len(extracted_info)
    /\ \E j \in 1..Len(metadata_index) :
           \A i \in 1..Len(extracted_info) :
               metadata_index[j].extracted_info_id # extracted_info[i].id

\* the last n entries of a list, all of it when it has no more than n
MostRecent(history, n) ==
    SubSeq(history, Max(Len(history) - n, 0) + 1, Len(history))

\* the chat_history entry of the exchange stored last in conversations
NewestExchange ==
    [user |-> conversations[Len(conversations)].user_message,
     assistant |-> conversations[Len(conversations)].assistant_response]

\* a step that is a chat answered with status 200, and one that is not
AnsweredChat == last' = "chat" /\ reported' = "none"
FailedChat == last' = "chat" /\ reported' \in {"status", "exception"}

\* C30: after every answered chat chat_history holds at most max_history
\* entries, the most recent ones in order, for every configured max_history
\* from 0 up; a chat that fails adds no chat_history entry and no
\* conversations row.
C30_HistoryWithinLimit ==
    [][/\ AnsweredChat =>
              /\ Len(chat_history') <= max_history
              /\ chat_history' = MostRecent(Append(chat_history, NewestExchange'), max_history)
       /\ FailedChat =>
              /\ chat_history' = chat_history
              /\ conversations' = conversations]_vars

\* C30 (for max_history of 1 and more, and for failed chats): the same, with
\* the entry of the answered chat as the last one kept
C30_PositiveLimitKept ==
    [][/\ (AnsweredChat /\ max_history >= 1) =>
              /\ Len(chat_history') <= max_history
              /\ chat_history' = MostRecent(Append(chat_history, NewestExchange'), max_history)
              /\ Len(conversations') = Len(conversations) + 1
       /\ FailedChat =>
              /\ chat_history' = chat_history
              /\ conversations' = conversations]_vars

\* with max_history 0 two answered chats have left two entries
C30_ZeroLimitGrows ==
    /\ max_history = 0
    /\ last = "chat"
    /\ Len(chat_history) = 2
    /\ Len(conversations) = 2

\* with max_history 1 the second answered chat has pushed the first entry out
C30_OldestDropped ==
    /\ max_history = 1
    /\ last = "chat"
    /\ reported = "none"
    /\ Len(conversations) = 2
    /\ Len(chat_history) = 1
    /\ chat_history[1].user = conversations[2].user_message
=============================================================================
